---- MODULE Spec2Model ----
(***************************************************************************)
(* State-tracking core of IGenBench: the item record (vis_item.py), the    *)
(* state store (utils/state_manager.py), the generation and evaluation     *)
(* drivers (workflow/*.py, engine/*.py) and the two CLI commands that run  *)
(* them (cli/gen_cli.py, cli/eval_cli.py).                                 *)
(*                                                                         *)
(* One CLI process runs at a time.  The filesystem is a function from      *)
(* paths to file contents; a JSON object is a function from key strings    *)
(* to values; strings that the code takes apart (model names, paths) are   *)
(* sequences of pieces.                                                    *)
(***************************************************************************)
EXTENDS Integers, Sequences, FiniteSets, TLC

\* ------------------------------------------------------------------ bounds
\* CLI processes run one after the other in one behaviour
MaxRuns == 2
\* evaluation entries in a seed record
MaxEntries == 2

\* ------------------------------------------------------------ basic values
\* Python's None / JSON null, told apart from every string the model holds
\* in an optional field (those are sequences of pieces)
None == <<"<None>">>
\* the value of the variables item, item0 while no process holds an item
NoItem == "<no item>"
\* an image file's content
Png == "<png>"

ItemId == "42"
OutputDir == "outputs"
SeedPath == <<"datasets", "/", "42.json">>

G1 == <<"g", "-", "1">>
G2 == <<"p", "/", "g", "2">>
GenModels == {G1, G2}
E1 == <<"e", "1">>
E2 == <<"e", "2">>
EvalModels == {E1, E2}

\* what the judgment capability answers (the code passes it through unread)
Answers == {"1"}

EmptyMap == [k \in {} |-> None]

\* dict.get(key, default)
Get(d, k, default) == IF k \in DOMAIN d THEN d[k] ELSE default

\* a test that lets the empty string through
Falsy_NoneOnly(s) == s = None

\* "not s" for an optional string
Falsy(s) == s = None \/ s = <<>>

\* --------------------------------------------------------------- Judgment
Judgment(eval_model, gen_model, analysis, answer) ==
  [eval_model |-> eval_model, gen_model |-> gen_model,
   analysis |-> analysis, answer |-> answer]

\* ---------------------------------------------------------------- EvalEntry
\* A judgments list of a file may hold elements that are no JSON object (a
\* string, a number, null): such an element is the one-key function below
Scalar(v) == "<scalar>" :> v

\* isinstance(j, dict)
IsDict(j) == "<scalar>" \notin DOMAIN j

\* Judgment(eval_model=j.get("eval_model", ""), ...): a missing key becomes
\* the empty string (<<>> for the model names, which are sequences of pieces)
JudgmentFromDict(j) ==
  Judgment(Get(j, "eval_model", <<>>), Get(j, "gen_model", <<>>),
           Get(j, "analysis", ""), Get(j, "answer", ""))

\* the loop of EvalEntry.from_dict over judgments_data: a dict becomes a
\* Judgment, any other element is passed over
RECURSIVE JudgmentsFrom(_, _)
JudgmentsFrom(judgments_data, n) ==
  IF n > Len(judgments_data) THEN <<>>
  ELSE IF IsDict(judgments_data[n])
       THEN <<JudgmentFromDict(judgments_data[n])>>
              \o JudgmentsFrom(judgments_data, n + 1)
       ELSE JudgmentsFrom(judgments_data, n + 1)

\* from_dict that passes over a judgment with a missing key as well
RECURSIVE JudgmentsFrom_SkipIncomplete(_, _)
JudgmentsFrom_SkipIncomplete(judgments_data, n) ==
  IF n > Len(judgments_data) THEN <<>>
  ELSE IF DOMAIN judgments_data[n] = {"eval_model", "gen_model", "analysis", "answer"}
       THEN <<JudgmentFromDict(judgments_data[n])>>
              \o JudgmentsFrom_SkipIncomplete(judgments_data, n + 1)
       ELSE JudgmentsFrom_SkipIncomplete(judgments_data, n + 1)

EntryFromDict_SkipIncomplete(data) ==
  [source |-> Get(data, "source", ""),
   ground |-> Get(data, "ground", ""),
   question |-> Get(data, "question", ""),
   question_type |-> Get(data, "question_type", ""),
   judgments |-> JudgmentsFrom_SkipIncomplete(Get(data, "judgments", <<>>), 1)]

\* EvalEntry.from_dict
EntryFromDict(data) ==
  [source |-> Get(data, "source", ""),
   ground |-> Get(data, "ground", ""),
   question |-> Get(data, "question", ""),
   question_type |-> Get(data, "question_type", ""),
   judgments |-> JudgmentsFrom(Get(data, "judgments", <<>>), 1)]

\* a serialisation that leaves the source key out
EntryToDict_NoSource(entry) ==
  [ground |-> entry.ground,
   question |-> entry.question,
   question_type |-> entry.question_type,
   judgments |-> [n \in 1..Len(entry.judgments) |->
                    [eval_model |-> entry.judgments[n].eval_model,
                     gen_model |-> entry.judgments[n].gen_model,
                     analysis |-> entry.judgments[n].analysis,
                     answer |-> entry.judgments[n].answer]]]

\* asdict(entry)
EntryToDict(entry) ==
  [source |-> entry.source,
   ground |-> entry.ground,
   question |-> entry.question,
   question_type |-> entry.question_type,
   judgments |-> [n \in 1..Len(entry.judgments) |->
                    [eval_model |-> entry.judgments[n].eval_model,
                     gen_model |-> entry.judgments[n].gen_model,
                     analysis |-> entry.judgments[n].analysis,
                     answer |-> entry.judgments[n].answer]]]

\* EvalEntry.has_judgment: any(...) over the judgments, left to right
RECURSIVE AnyJudgmentFrom(_, _, _, _)
AnyJudgmentFrom(judgments, n, gen_model, eval_model) ==
  IF n > Len(judgments) THEN FALSE
  ELSE IF judgments[n].gen_model = gen_model /\ judgments[n].eval_model = eval_model
       THEN TRUE
       ELSE AnyJudgmentFrom(judgments, n + 1, gen_model, eval_model)

\* has_judgment looking at the first judgment only
has_judgment_FirstOnly(entry, gen_model, eval_model) ==
  /\ Len(entry.judgments) >= 1
  /\ entry.judgments[1].gen_model = gen_model
  /\ entry.judgments[1].eval_model = eval_model

has_judgment(entry, gen_model, eval_model) ==
  AnyJudgmentFrom(entry.judgments, 1, gen_model, eval_model)

\* ------------------------------------------------------------------ VISItem
\* VISItem.from_dict applied to a parsed JSON object (the id is required)
FromDict(info_data) ==
  LET ev == Get(info_data, "evaluation", <<>>)
  IN  [id |-> info_data["id"],
       reference_image_url |-> Get(info_data, "reference_image_url", None),
       t2i_prompt |-> Get(info_data, "t2i_prompt", None),
       chart_type |-> Get(info_data, "chart_type", None),
       generation |-> Get(info_data, "generation", EmptyMap),
       evaluation |-> [n \in 1..Len(ev) |-> EntryFromDict(ev[n])]]

\* the JSON object VISItem.save_item writes
ToDict(it) ==
  [id |-> it.id,
   reference_image_url |-> it.reference_image_url,
   t2i_prompt |-> it.t2i_prompt,
   chart_type |-> it.chart_type,
   generation |-> it.generation,
   evaluation |-> [n \in 1..Len(it.evaluation) |-> EntryToDict(it.evaluation[n])]]

\* an update that keeps only the entry written last
update_generation_Reset(it, model, image_path) ==
  [it EXCEPT !.generation = (model :> image_path)]

\* VISItem.update_generation
update_generation(it, model, image_path) ==
  [it EXCEPT !.generation =
     [m \in DOMAIN it.generation \cup {model} |->
        IF m = model THEN image_path ELSE it.generation[m]]]

\* VISItem.check_generation_exists
check_generation_exists(it, model) ==
  model \in DOMAIN it.generation /\ it.generation[model] # None

\* VISItem.check_evaluation_complete: the loop returns False at the first
\* entry without a judgment, True after the last entry
RECURSIVE AllJudgedFrom(_, _, _, _)
AllJudgedFrom(evaluation, n, gen_model, eval_model) ==
  IF n > Len(evaluation) THEN TRUE
  ELSE IF ~has_judgment(evaluation[n], gen_model, eval_model) THEN FALSE
       ELSE AllJudgedFrom(evaluation, n + 1, gen_model, eval_model)

\* check_evaluation_complete without the test for an empty list
check_evaluation_complete_Vacuous(it, gen_model, eval_model) ==
  AllJudgedFrom(it.evaluation, 1, gen_model, eval_model)

check_evaluation_complete(it, gen_model, eval_model) ==
  IF it.evaluation = <<>> THEN FALSE
  ELSE AllJudgedFrom(it.evaluation, 1, gen_model, eval_model)

\* VISItem.build_save_path
build_save_path(output_dir, id) == <<output_dir, "/", id, "/", id, ".json">>

\* ------------------------------------------------------- ModelNameResolver
Replace(s, old, new) == [n \in 1..Len(s) |-> IF s[n] = old THEN new ELSE s[n]]

\* the least n >= from with s[n] = c, or Len(s) + 1
RECURSIVE IndexFrom(_, _, _)
IndexFrom(s, c, from) ==
  IF from > Len(s) THEN Len(s) + 1
  ELSE IF s[from] = c THEN from
       ELSE IndexFrom(s, c, from + 1)

\* s.split("/")[1] of a string that holds a "/"
SplitSecond(s) ==
  LET i == IndexFrom(s, "/", 1)
      j == IndexFrom(s, "/", i + 1)
  IN  SubSeq(s, i + 1, j - 1)

\* ModelNameResolver.normalize_for_filename
normalize_for_filename(model_name) ==
  LET normalized == Replace(Replace(model_name, "-", "_"), ".", "_")
  IN  IF \E n \in 1..Len(normalized) : normalized[n] = "/"
      THEN SplitSecond(normalized)
      ELSE normalized

\* ModelNameResolver.build_image_filename, extension ".png"
build_image_filename(item_id, model_name) ==
  <<item_id, "_">> \o normalize_for_filename(model_name) \o <<".png">>

\* a path that leaves the model name out
resolve_image_path_NoModel(item_id, model_name, output_dir) ==
  <<output_dir, "/", item_id, "/", item_id, ".png">>

\* PathResolver.resolve_image_path
resolve_image_path(item_id, model_name, output_dir) ==
  <<output_dir, "/", item_id, "/">> \o build_image_filename(item_id, model_name)

\* ------------------------------------------------------------- filesystem
\* Path.exists
Exists(files, path) == path \in DOMAIN files

\* open(path, "w") and a complete write
WriteFile(files, path, content) ==
  [p \in DOMAIN files \cup {path} |-> IF p = path THEN content ELSE files[p]]

\* ------------------------------------------------------- ItemStateManager
\* load_item that never looks at the output directory
load_item_SeedOnly(files, output_dir, source_path, resume_flag) ==
  FromDict(files[source_path])

\* load_item that keeps the seed's entries when it loads the saved record
load_item_Merged(files, output_dir, source_path, resume_flag) ==
  IF ~resume_flag THEN FromDict(files[source_path])
  ELSE LET item_temp == FromDict(files[source_path])
           output_path == build_save_path(output_dir, item_temp.id)
       IN  IF Exists(files, output_path)
           THEN [FromDict(files[output_path]) EXCEPT
                   !.evaluation = item_temp.evaluation]
           ELSE item_temp

\* ItemStateManager.load_item
load_item(files, output_dir, source_path, resume_flag) ==
  IF ~resume_flag THEN FromDict(files[source_path])
  ELSE LET item_temp == FromDict(files[source_path])
           output_path == build_save_path(output_dir, item_temp.id)
       IN  IF Exists(files, output_path)
           THEN FromDict(files[output_path])
           ELSE item_temp

\* ItemStateManager.save_item, and VISItem.save_item given the output
\* directory: both write {output_dir}/{id}/{id}.json in full
save_item(files, output_dir, it) ==
  WriteFile(files, build_save_path(output_dir, it.id), ToDict(it))

\* is_stage_completed("generate") that trusts the record
is_stage_completed_generate_RecordOnly(files, output_dir, item_id, method) ==
  LET item_json == build_save_path(output_dir, item_id)
  IN  /\ Exists(files, item_json)
      /\ method \in DOMAIN Get(files[item_json], "generation", EmptyMap)

\* ItemStateManager.is_stage_completed(item_id, "generate", method)
is_stage_completed_generate(files, output_dir, item_id, method) ==
  LET item_json == build_save_path(output_dir, item_id)
  IN  IF ~Exists(files, item_json) THEN FALSE
      ELSE IF method = None \/ method = <<>> THEN FALSE
      ELSE LET generation == Get(files[item_json], "generation", EmptyMap)
           IN  IF method \in DOMAIN generation /\ generation[method] # None
                    /\ generation[method] # <<>>
               THEN Exists(files, generation[method])
               ELSE FALSE

\* ------------------------------------------------------------ seed records
Prompts == {<<"draw a chart">>, <<>>}

SeedEntry(question, judgments) ==
  [source |-> "prompt", ground |-> "g", question |-> question,
   question_type |-> "t", judgments |-> judgments]

\* an entry of a seed: a question (possibly empty), and possibly a judgment
\* left by an earlier use of the record
SeedEntries ==
  {SeedEntry("Is there a title?", <<>>),
   SeedEntry("", <<>>),
   SeedEntry("Is there a title?", <<Judgment(E1, G1, "a", "1")>>)}

SeedEvaluations ==
  UNION {[1..n -> SeedEntries] : n \in 0..MaxEntries}

Seeds ==
  {[id |-> ItemId, t2i_prompt |-> p, evaluation |-> ev] :
     p \in Prompts, ev \in SeedEvaluations}

\* ------------------------------------------------------------------- state
VARIABLES
  fs,          \* the filesystem: path -> content
  pc,          \* where the CLI process is; "idle" when none runs
  item,        \* the process's in-memory VISItem
  resume,      \* --resume
  gen_model,   \* gen: --model; eval: --gen-model
  eval_model,  \* eval: --model
  idx,         \* _evaluate_all: the entry the loop is at (1-based)
  calls,       \* the entries the judgment capability was called for, in order
  gen_calls,   \* the calls of the image-generation capability
  item0,       \* the item as the process loaded it
  fs0,         \* the filesystem as the process found it
  runs,        \* the processes that have ended
  filename,    \* the image filename built last, None before
  procs,       \* concurrent driver processes: process -> its local state
  last_writer, \* the concurrent process that wrote the record last, 0 if none
  error,       \* the exception handed to ErrorHandler, None if none
  result,      \* what the call made last returned, None before any call
  call         \* the arguments of an is_stage_completed call, None if none

vars ==
  <<fs, pc, item, resume, gen_model, eval_model, idx, calls, gen_calls,
    item0, fs0, runs, filename, procs, last_writer, error, result, call>>

Init ==
  /\ fs \in {[p \in {SeedPath} |-> seed] : seed \in Seeds}
  /\ pc = "idle"
  /\ item = NoItem
  /\ resume = FALSE
  /\ gen_model = None
  /\ eval_model = None
  /\ idx = 0
  /\ calls = <<>>
  /\ gen_calls = 0
  /\ item0 = NoItem
  /\ fs0 = fs
  /\ runs = 0
  /\ filename = None
  /\ procs = <<>>
  /\ last_writer = 0
  /\ error = None
  /\ result = None
  /\ call = None

\* --------------------------------------------------------------- eval CLI
\* cmd_run_evaluation up to the call of workflow.run: the item is loaded
\* with load_item under --resume and from the seed otherwise
CmdEval(r, g, e) ==
  /\ pc = "idle"
  /\ runs < MaxRuns
  /\ item' = (IF r THEN load_item(fs, OutputDir, SeedPath, TRUE)
                   ELSE FromDict(fs[SeedPath]))
  /\ item0' = item'
  /\ resume' = r
  /\ gen_model' = g
  /\ eval_model' = e
  /\ pc' = "eval_run"
  /\ UNCHANGED <<fs, fs0, idx, calls, gen_calls, runs>>
  /\ UNCHANGED <<filename, procs, last_writer, error, result, call>>

\* EvalWorkflow.run: under resume a fully evaluated item is returned at once
EvalRunComplete ==
  /\ pc = "eval_run"
  /\ resume /\ check_evaluation_complete(item, gen_model, eval_model)
  /\ pc' = "final_save"
  /\ UNCHANGED <<fs, item, resume, gen_model, eval_model, idx, calls,
                 gen_calls, item0, fs0, runs>>
  /\ UNCHANGED <<filename, procs, last_writer, error, result, call>>

\* an item without entries treated as nothing to do
EvalRunNoQuestions_Noop ==
  /\ pc = "eval_run"
  /\ ~(resume /\ check_evaluation_complete(item, gen_model, eval_model))
  /\ item.evaluation = <<>>
  /\ pc' = "final_save"
  /\ UNCHANGED <<fs, item, resume, gen_model, eval_model, idx, calls,
                 gen_calls, item0, fs0, runs>>
  /\ UNCHANGED <<filename, procs, last_writer, error, result, call>>

\* EvalWorkflow._evaluate_all: no entries, ValueError
EvalRunNoQuestions ==
  /\ pc = "eval_run"
  /\ ~(resume /\ check_evaluation_complete(item, gen_model, eval_model))
  /\ item.evaluation = <<>>
  /\ pc' = "failed"
  /\ UNCHANGED <<fs, item, resume, gen_model, eval_model, idx, calls,
                 gen_calls, item0, fs0, runs>>
  /\ UNCHANGED <<filename, procs, last_writer, error, result, call>>

\* EvalWorkflow._evaluate_all: the loop is entered
EvalRunLoop ==
  /\ pc = "eval_run"
  /\ ~(resume /\ check_evaluation_complete(item, gen_model, eval_model))
  /\ item.evaluation # <<>>
  /\ idx' = 1
  /\ pc' = "eval_loop"
  /\ UNCHANGED <<fs, item, resume, gen_model, eval_model, calls,
                 gen_calls, item0, fs0, runs>>
  /\ UNCHANGED <<filename, procs, last_writer, error, result, call>>

\* a loop that never skips
SkipEntry_Never(r, entry, g, e) == FALSE

\* the loop's "continue": under resume an entry already judged is skipped
SkipEntry(r, entry, g, e) == r /\ has_judgment(entry, g, e)

EvalSkip ==
  /\ pc = "eval_loop"
  /\ idx <= Len(item.evaluation)
  /\ SkipEntry(resume, item.evaluation[idx], gen_model, eval_model)
  /\ idx' = idx + 1
  /\ UNCHANGED <<fs, pc, item, resume, gen_model, eval_model, calls,
                 gen_calls, item0, fs0, runs>>
  /\ UNCHANGED <<filename, procs, last_writer, error, result, call>>

\* a judging step that calls the capability before it looks at the question
EvalJudgeNoQuestion_CallsFirst ==
  /\ pc = "eval_loop"
  /\ idx <= Len(item.evaluation)
  /\ ~SkipEntry(resume, item.evaluation[idx], gen_model, eval_model)
  /\ item.evaluation[idx].question = ""
  /\ calls' = Append(calls, idx)
  /\ pc' = "failed"
  /\ UNCHANGED <<fs, item, resume, gen_model, eval_model, idx,
                 gen_calls, item0, fs0, runs>>
  /\ UNCHANGED <<filename, procs, last_writer, error, result, call>>

\* EvalEngine.judge_entry: an empty question raises before any call
EvalJudgeNoQuestion ==
  /\ pc = "eval_loop"
  /\ idx <= Len(item.evaluation)
  /\ ~SkipEntry(resume, item.evaluation[idx], gen_model, eval_model)
  /\ item.evaluation[idx].question = ""
  /\ pc' = "failed"
  /\ UNCHANGED <<fs, item, resume, gen_model, eval_model, idx, calls,
                 gen_calls, item0, fs0, runs>>
  /\ UNCHANGED <<filename, procs, last_writer, error, result, call>>

\* a failure that puts the item back as it was loaded
EvalJudgeFails_Rollback ==
  /\ pc = "eval_loop"
  /\ idx <= Len(item.evaluation)
  /\ ~SkipEntry(resume, item.evaluation[idx], gen_model, eval_model)
  /\ item.evaluation[idx].question # ""
  /\ calls' = Append(calls, idx)
  /\ item' = item0
  /\ pc' = "failed"
  /\ UNCHANGED <<fs, resume, gen_model, eval_model, idx,
                 gen_calls, item0, fs0, runs>>
  /\ UNCHANGED <<filename, procs, last_writer, error, result, call>>

\* EvalEngine.judge_entry: the judgment capability is called and raises
EvalJudgeFails ==
  /\ pc = "eval_loop"
  /\ idx <= Len(item.evaluation)
  /\ ~SkipEntry(resume, item.evaluation[idx], gen_model, eval_model)
  /\ item.evaluation[idx].question # ""
  /\ calls' = Append(calls, idx)
  /\ pc' = "failed"
  /\ UNCHANGED <<fs, item, resume, gen_model, eval_model, idx,
                 gen_calls, item0, fs0, runs>>
  /\ UNCHANGED <<filename, procs, last_writer, error, result, call>>

\* eval_entry.judgments.append(judgment)
AppendJudgment(it, n, judgment) ==
  [it EXCEPT !.evaluation[n].judgments = Append(@, judgment)]

\* a judgment that carries the two model names in each other's place
EvalJudge_SwappedPair(answer) ==
  /\ pc = "eval_loop"
  /\ idx <= Len(item.evaluation)
  /\ ~SkipEntry(resume, item.evaluation[idx], gen_model, eval_model)
  /\ item.evaluation[idx].question # ""
  /\ calls' = Append(calls, idx)
  /\ item' = AppendJudgment(item, idx, Judgment(gen_model, eval_model, "a", answer))
  /\ pc' = "eval_save"
  /\ UNCHANGED <<fs, resume, gen_model, eval_model, idx,
                 gen_calls, item0, fs0, runs>>
  /\ UNCHANGED <<filename, procs, last_writer, error, result, call>>

\* EvalEngine.judge_entry returns and the judgment is appended
EvalJudge(answer) ==
  /\ pc = "eval_loop"
  /\ idx <= Len(item.evaluation)
  /\ ~SkipEntry(resume, item.evaluation[idx], gen_model, eval_model)
  /\ item.evaluation[idx].question # ""
  /\ calls' = Append(calls, idx)
  /\ item' = AppendJudgment(item, idx, Judgment(eval_model, gen_model, "a", answer))
  /\ pc' = "eval_save"
  /\ UNCHANGED <<fs, resume, gen_model, eval_model, idx,
                 gen_calls, item0, fs0, runs>>
  /\ UNCHANGED <<filename, procs, last_writer, error, result, call>>

\* a loop that does not save
PersistEntry_Skipped(files, output_dir, it) == files

\* what the loop does to the filesystem after each judged entry
PersistEntry(files, output_dir, it) == save_item(files, output_dir, it)

\* self.state_manager.save_item(item), then the next entry
EvalSave ==
  /\ pc = "eval_save"
  /\ fs' = PersistEntry(fs, OutputDir, item)
  /\ idx' = idx + 1
  /\ pc' = "eval_loop"
  /\ UNCHANGED <<item, resume, gen_model, eval_model, calls,
                 gen_calls, item0, fs0, runs>>
  /\ UNCHANGED <<filename, procs, last_writer, error, result, call>>

\* the loop ends and run returns the item
EvalReturn ==
  /\ pc = "eval_loop"
  /\ idx > Len(item.evaluation)
  /\ pc' = "final_save"
  /\ UNCHANGED <<fs, item, resume, gen_model, eval_model, idx, calls,
                 gen_calls, item0, fs0, runs>>
  /\ UNCHANGED <<filename, procs, last_writer, error, result, call>>

\* ---------------------------------------------------------------- gen CLI
\* cmd_gen up to the call of workflow.run
CmdGen(r, m) ==
  /\ pc = "idle"
  /\ runs < MaxRuns
  /\ item' = (IF r THEN load_item(fs, OutputDir, SeedPath, TRUE)
                   ELSE FromDict(fs[SeedPath]))
  /\ item0' = item'
  /\ resume' = r
  /\ gen_model' = m
  /\ eval_model' = None
  /\ pc' = "gen_run"
  /\ UNCHANGED <<fs, fs0, idx, calls, gen_calls, runs>>
  /\ UNCHANGED <<filename, procs, last_writer, error, result, call>>

\* the test without the look at the file
GenAlreadyDone_NoFileCheck(files, it, r, model) ==
  r /\ check_generation_exists(it, model)

\* GenWorkflow.run: the test that skips the generation
GenAlreadyDone(files, it, r, model) ==
  /\ r
  /\ check_generation_exists(it, model)
  /\ Exists(files, it.generation[model])

\* GenWorkflow.run returns the item at once
GenSkip ==
  /\ pc = "gen_run"
  /\ GenAlreadyDone(fs, item, resume, gen_model)
  /\ pc' = "final_save"
  /\ UNCHANGED <<fs, item, resume, gen_model, eval_model, idx, calls,
                 gen_calls, item0, fs0, runs>>
  /\ UNCHANGED <<filename, procs, last_writer, error, result, call>>

\* GenEngine.text2image: no prompt, ValueError before any call
GenNoPrompt ==
  /\ pc = "gen_run"
  /\ ~GenAlreadyDone(fs, item, resume, gen_model)
  /\ Falsy(item.t2i_prompt)
  /\ pc' = "failed"
  /\ UNCHANGED <<fs, item, resume, gen_model, eval_model, idx, calls,
                 gen_calls, item0, fs0, runs>>
  /\ UNCHANGED <<filename, procs, last_writer, error, result, call>>

\* GenEngine.text2image: the image-generation capability is called and raises
GenFails ==
  /\ pc = "gen_run"
  /\ ~GenAlreadyDone(fs, item, resume, gen_model)
  /\ ~Falsy(item.t2i_prompt)
  /\ gen_calls' = gen_calls + 1
  /\ pc' = "failed"
  /\ UNCHANGED <<fs, item, resume, gen_model, eval_model, idx, calls,
                 item0, fs0, runs>>
  /\ UNCHANGED <<filename, procs, last_writer, error, result, call>>

\* a run that records the image under the normalised model name
Generate_NormalisedKey ==
  /\ pc = "gen_run"
  /\ ~GenAlreadyDone(fs, item, resume, gen_model)
  /\ ~Falsy(item.t2i_prompt)
  /\ gen_calls' = gen_calls + 1
  /\ LET image_path == resolve_image_path(item.id, gen_model, OutputDir)
     IN  /\ item' = update_generation(item, normalize_for_filename(gen_model),
                                      image_path)
         /\ fs' = save_item(WriteFile(fs, image_path, Png), OutputDir, item')
  /\ pc' = "final_save"
  /\ UNCHANGED <<resume, gen_model, eval_model, idx, calls, item0, fs0, runs>>
  /\ UNCHANGED <<filename, procs, last_writer, error, result, call>>

\* the capability returns: the image is written, the record updated and saved
Generate ==
  /\ pc = "gen_run"
  /\ ~GenAlreadyDone(fs, item, resume, gen_model)
  /\ ~Falsy(item.t2i_prompt)
  /\ gen_calls' = gen_calls + 1
  /\ LET image_path == resolve_image_path(item.id, gen_model, OutputDir)
     IN  /\ item' = update_generation(item, gen_model, image_path)
         /\ fs' = save_item(WriteFile(fs, image_path, Png), OutputDir, item')
  /\ pc' = "final_save"
  /\ UNCHANGED <<resume, gen_model, eval_model, idx, calls, item0, fs0, runs>>
  /\ UNCHANGED <<filename, procs, last_writer, error, result, call>>

\* ------------------------------------------------------ both CLI commands
\* item.save_item(output_path=output_dir) after workflow.run returned
FinalSave ==
  /\ pc = "final_save"
  /\ fs' = save_item(fs, OutputDir, item)
  /\ pc' = "done"
  /\ UNCHANGED <<item, resume, gen_model, eval_model, idx, calls,
                 gen_calls, item0, fs0, runs>>
  /\ UNCHANGED <<filename, procs, last_writer, error, result, call>>

\* the process ends: normally, or with typer.Exit after an exception
Exit ==
  /\ pc \in {"done", "failed"}
  /\ pc' = "idle"
  /\ item' = NoItem
  /\ item0' = NoItem
  /\ resume' = FALSE
  /\ gen_model' = None
  /\ eval_model' = None
  /\ idx' = 0
  /\ calls' = <<>>
  /\ gen_calls' = 0
  /\ fs0' = fs
  /\ runs' = runs + 1
  /\ UNCHANGED fs
  /\ UNCHANGED <<filename, procs, last_writer, error, result, call>>

\* ------------------------------------------------------------ environment
ImagePaths == {resolve_image_path(ItemId, m, OutputDir) : m \in GenModels}

\* somebody deletes a generated image between two processes
DeleteFile(path) ==
  /\ pc = "idle"
  /\ Exists(fs, path)
  /\ fs' = [p \in DOMAIN fs \ {path} |-> fs[p]]
  /\ fs0' = fs'
  /\ UNCHANGED <<pc, item, resume, gen_model, eval_model, idx, calls,
                 gen_calls, item0, runs>>
  /\ UNCHANGED <<filename, procs, last_writer, error, result, call>>

Next ==
  \/ \E r \in BOOLEAN, g \in GenModels, e \in EvalModels : CmdEval(r, g, e)
  \/ EvalRunComplete
  \/ EvalRunNoQuestions
  \/ EvalRunLoop
  \/ EvalSkip
  \/ EvalJudgeNoQuestion
  \/ EvalJudgeFails
  \/ \E answer \in Answers : EvalJudge(answer)
  \/ EvalSave
  \/ EvalReturn
  \/ \E r \in BOOLEAN, m \in GenModels : CmdGen(r, m)
  \/ GenSkip
  \/ GenNoPrompt
  \/ GenFails
  \/ Generate
  \/ FinalSave
  \/ Exit
  \/ \E path \in ImagePaths : DeleteFile(path)

Spec == Init /\ [][Next]_vars

\* =================================================================== claims
JsonPath == build_save_path(OutputDir, ItemId)

\* an evaluation process, a generation process
IsEval == pc # "idle" /\ eval_model # None
IsGen == pc # "idle" /\ eval_model = None

Matches(j, g, e) == j.gen_model = g /\ j.eval_model = e

\* the entries of an item without a judgment for the pair
MissingIdx(it, g, e) ==
  {i \in 1..Len(it.evaluation) :
     \A n \in 1..Len(it.evaluation[i].judgments) :
       ~Matches(it.evaluation[i].judgments[n], g, e)}

Called == {calls[k] : k \in 1..Len(calls)}

\* calls lists, in increasing order and without a gap, the first elements of S
OrderedPrefix(S) ==
  /\ \A k \in 1..Len(calls) : calls[k] \in S
  /\ \A k1, k2 \in 1..Len(calls) : k1 < k2 => calls[k1] < calls[k2]
  /\ \A k \in 1..Len(calls) : \A i \in S : i < calls[k] => i \in Called

\* entry i of the in-memory item holds what it held when loaded, and one
\* more judgment, for the run's pair
OneAppended(i) ==
  LET old == item0.evaluation[i].judgments
      new == item.evaluation[i].judgments
  IN  /\ Len(new) = Len(old) + 1
      /\ SubSeq(new, 1, Len(old)) = old
      /\ Matches(new[Len(new)], gen_model, eval_model)

\* C1 (as stated): a resumed evaluation run on an item with entries calls the
\* judgment capability exactly once for each entry without a judgment for
\* the pair and never for the others, whatever way the run ends.
C1_EveryMissingEntryCalled ==
  (IsEval /\ resume /\ pc \in {"done", "failed"} /\ item0.evaluation # <<>>)
    => /\ Called = MissingIdx(item0, gen_model, eval_model)
       /\ Len(calls) = Cardinality(Called)

\* C1 (amended): a resumed evaluation run on an item with entries calls the
\* capability in list order, at most once per entry and only for entries
\* without a judgment for the pair; it stops at the first entry whose judging
\* fails (an empty question fails before the call); a run that returns has
\* called it for every such entry and appended one judgment to each; a run
\* on an item already complete for the pair calls nothing and appends nothing.
C1_ResumedRunCalls ==
  (IsEval /\ resume /\ item0.evaluation # <<>>)
    => LET S == MissingIdx(item0, gen_model, eval_model)
       IN  /\ OrderedPrefix(S)
           /\ pc = "failed" => \A i \in Called : i <= idx
           /\ pc \in {"final_save", "done"}
                => /\ Called = S
                   /\ \A i \in S : OneAppended(i)
                   /\ \A i \in 1..Len(item.evaluation) \ S :
                        item.evaluation[i] = item0.evaluation[i]
           /\ S = {} => calls = <<>> /\ item = item0

\* a resumed run that skipped an entry and judged another has returned
C1_Witness ==
  /\ IsEval /\ resume /\ pc = "done"
  /\ Len(calls) >= 1
  /\ Len(calls) < Len(item.evaluation)

\* a resumed run has returned without a call: the record an earlier process
\* saved was complete for the pair
C1_WitnessSecondRun ==
  /\ IsEval /\ resume /\ pc = "done"
  /\ calls = <<>>
  /\ Exists(fs0, JsonPath)
  /\ item0.evaluation # <<>>

\* C2 (as stated): a generation run under resume with the model recorded and
\* the recorded file present makes no call and returns the item unchanged;
\* every other generation run makes exactly one call.
C2_OneCallOtherwise ==
  (IsGen /\ pc # "gen_run")
    => IF resume /\ gen_model \in DOMAIN item0.generation
            /\ Exists(fs0, item0.generation[gen_model])
       THEN gen_calls = 0 /\ item = item0
       ELSE gen_calls = 1

\* C2 (amended): as stated, except that a run which is not skipped and whose
\* item has no prompt fails before the capability is called (no call).
C2_GenCalls ==
  (IsGen /\ pc # "gen_run")
    => IF resume /\ gen_model \in DOMAIN item0.generation
            /\ Exists(fs0, item0.generation[gen_model])
       THEN gen_calls = 0 /\ item = item0 /\ pc # "failed"
       ELSE IF item0.t2i_prompt = None \/ item0.t2i_prompt = <<>>
            THEN gen_calls = 0 /\ pc = "failed"
            ELSE gen_calls = 1

\* a resumed run found the recorded image and returned without a call
C2_Witness ==
  /\ IsGen /\ resume /\ pc = "done"
  /\ gen_model \in DOMAIN item0.generation
  /\ gen_calls = 0

\* a resumed run found the model recorded, the file gone, and generated again
C2_WitnessStale ==
  /\ IsGen /\ resume /\ pc = "done"
  /\ gen_model \in DOMAIN item0.generation
  /\ gen_calls = 1

\* the judgments entry i gained in this process that the saved record lacks
UnsavedAt(i) ==
  {n \in (Len(item0.evaluation[i].judgments) + 1)..Len(item.evaluation[i].judgments) :
     ~(/\ Exists(fs, JsonPath)
       /\ i <= Len(fs[JsonPath].evaluation)
       /\ n <= Len(fs[JsonPath].evaluation[i].judgments)
       /\ fs[JsonPath].evaluation[i].judgments[n] = item.evaluation[i].judgments[n])}

Unsaved ==
  UNION {{<<i, n>> : n \in UnsavedAt(i)} : i \in 1..Len(item.evaluation)}

RecordContains(new, old) ==
  /\ \A m \in DOMAIN old.generation :
       m \in DOMAIN new.generation /\ new.generation[m] = old.generation[m]
  /\ \A i \in 1..Len(old.evaluation) :
       /\ i <= Len(new.evaluation)
       /\ \A n \in 1..Len(old.evaluation[i].judgments) :
            \E k \in 1..Len(new.evaluation[i].judgments) :
              new.evaluation[i].judgments[k] = old.evaluation[i].judgments[n]

\* this process has written the record before
PersistedBefore ==
  \/ pc = "eval_save" /\ Len(calls) >= 2
  \/ pc = "final_save" /\ (Len(calls) >= 1 \/ gen_calls >= 1)

\* C4 (as stated): every write of the record, with or without resume, the
\* first of a run included, keeps every generation entry and every judgment
\* of the record it overwrites.
C4_EveryPersistKeeps ==
  [][Exists(fs, JsonPath) => RecordContains(fs'[JsonPath], fs[JsonPath])]_vars

\* C4 (amended): every write made by a run under resume, and every write
\* after the first one of any run, keeps every generation entry and every
\* judgment of the record it overwrites.  (The first write of a run without
\* resume replaces the record by one built from the seed.)
C4_ResumedPersistKeeps ==
  [][(Exists(fs, JsonPath) /\ (resume \/ PersistedBefore))
       => RecordContains(fs'[JsonPath], fs[JsonPath])]_vars

\* a resumed evaluation run has written over a record that held judgments
C4_Witness ==
  /\ IsEval /\ resume
  /\ Exists(fs0, JsonPath)
  /\ fs # fs0
  /\ \E i \in 1..Len(fs0[JsonPath].evaluation) :
       fs0[JsonPath].evaluation[i].judgments # <<>>
  /\ fs0[JsonPath].generation # EmptyMap

\* the seed's fields as load returns them when there is no saved record
SameAsSeed(it, seed) ==
  /\ it.id = seed.id
  /\ it.t2i_prompt = seed.t2i_prompt
  /\ it.generation = EmptyMap
  /\ Len(it.evaluation) = Len(seed.evaluation)
  /\ \A i \in 1..Len(seed.evaluation) :
       /\ it.evaluation[i].question = seed.evaluation[i].question
       /\ it.evaluation[i].judgments = seed.evaluation[i].judgments

\* C5: load_item returns the saved record in full when resume is set and
\* the record's file exists, and the seed record in every other case.
C5_LoadItem ==
  \A r \in BOOLEAN :
    LET it == load_item(fs, OutputDir, SeedPath, r)
    IN  IF r /\ Exists(fs, JsonPath)
        THEN ToDict(it) = fs[JsonPath]
        ELSE SameAsSeed(it, fs[SeedPath])

\* a resumed process has loaded a saved record that differs from the seed
C5_Witness ==
  /\ pc \in {"eval_run", "gen_run"}
  /\ resume
  /\ Exists(fs, JsonPath)
  /\ ~SameAsSeed(item, fs[SeedPath])

\* C6: check_evaluation_complete is true exactly when the item has entries
\* and each entry has a judgment with both model names equal to the given
\* ones; an item without entries is complete for no pair.
C6_EvaluationComplete ==
  pc # "idle"
    => \A g \in GenModels, e \in EvalModels :
         check_evaluation_complete(item, g, e)
           <=> /\ Len(item.evaluation) > 0
               /\ \A i \in 1..Len(item.evaluation) :
                    \E n \in 1..Len(item.evaluation[i].judgments) :
                      Matches(item.evaluation[i].judgments[n], g, e)

\* an item with two entries is complete for one pair and not for another
C6_Witness ==
  /\ pc # "idle"
  /\ Len(item.evaluation) = 2
  /\ check_evaluation_complete(item, G1, E1)
  /\ ~check_evaluation_complete(item, G1, E2)

\* an item without entries has been loaded
C6_WitnessEmpty ==
  /\ pc # "idle"
  /\ item.evaluation = <<>>

\* the saved record, where there is one
Record == fs[JsonPath]

\* C7 (as stated): with generation[m] = p recorded, check_generation_exists
\* on the item and is_stage_completed("generate") on the saved record are
\* both true exactly when the file at p exists.
C7_BothChecksFollowFile ==
  /\ pc # "idle"
       => \A m \in DOMAIN item.generation :
            check_generation_exists(item, m) <=> Exists(fs, item.generation[m])
  /\ Exists(fs, JsonPath)
       => \A m \in DOMAIN Record.generation :
            is_stage_completed_generate(fs, OutputDir, ItemId, m)
              <=> Exists(fs, Record.generation[m])

\* C7 (amended): with generation[m] = p recorded, is_stage_completed
\* ("generate") on the saved record, and the test GenWorkflow.run makes under
\* resume, are true exactly when the file at p exists, so deleting the file
\* turns them false with the record unchanged; check_generation_exists by
\* itself is true whenever the model is recorded, file or no file.
C7_StageCompletedFollowsFile ==
  /\ Exists(fs, JsonPath)
       => \A m \in GenModels :
            is_stage_completed_generate(fs, OutputDir, ItemId, m)
              <=> (m \in DOMAIN Record.generation /\ Exists(fs, Record.generation[m]))
  /\ pc # "idle"
       => \A m \in GenModels :
            /\ GenAlreadyDone(fs, item, TRUE, m)
                 <=> (m \in DOMAIN item.generation /\ Exists(fs, item.generation[m]))
            /\ check_generation_exists(item, m) <=> m \in DOMAIN item.generation

\* the image recorded for a model has been deleted; the record still names it
C7_Witness ==
  /\ pc = "idle"
  /\ Exists(fs, JsonPath)
  /\ G1 \in DOMAIN Record.generation
  /\ ~Exists(fs, Record.generation[G1])
  /\ ~is_stage_completed_generate(fs, OutputDir, ItemId, G1)

\* no entry holds two judgments of one pair
NoDuplicates(evaluation) ==
  \A i \in 1..Len(evaluation) :
    \A n1, n2 \in 1..Len(evaluation[i].judgments) :
      (n1 < n2) =>
        ~Matches(evaluation[i].judgments[n1],
                 evaluation[i].judgments[n2].gen_model,
                 evaluation[i].judgments[n2].eval_model)

\* C8 (as stated): whatever the resume setting of the runs, no entry of the
\* in-memory item or of the saved record ever holds two judgments of one pair.
C8_NeverDuplicates ==
  /\ pc # "idle" => NoDuplicates(item.evaluation)
  /\ Exists(fs, JsonPath) => NoDuplicates(Record.evaluation)

\* C8 (amended): an evaluation run under resume adds no duplicate: if the
\* item it loaded has none, the in-memory item and the record it writes have
\* none.  (A run without resume appends without looking.)
C8_ResumedRunNoDuplicates ==
  (IsEval /\ resume /\ NoDuplicates(item0.evaluation))
    => /\ NoDuplicates(item.evaluation)
       /\ (Exists(fs, JsonPath) /\ fs # fs0) => NoDuplicates(Record.evaluation)

\* a resumed run passed an entry that had a judgment of its pair and judged
\* another entry
C8_Witness ==
  /\ IsEval /\ resume /\ pc = "done"
  /\ calls # <<>>
  /\ MissingIdx(item0, gen_model, eval_model) # 1..Len(item0.evaluation)
  /\ fs # fs0

\* C9: an evaluation run on an item without entries fails, with or without
\* resume: no call of the judgment capability, the in-memory item as loaded,
\* nothing written.
C9_NoEntriesFails ==
  (IsEval /\ item0.evaluation = <<>> /\ pc # "eval_run")
    => /\ pc = "failed"
       /\ calls = <<>>
       /\ item = item0
       /\ fs = fs0

\* a resumed evaluation run on an item without entries has failed
C9_Witness ==
  /\ IsEval /\ resume /\ pc = "failed"
  /\ item0.evaluation = <<>>

\* C10: when the judging step fails on entry idx, every judgment this run
\* appended to an earlier entry is still in the in-memory item and in the
\* saved record, the failing entry and the later ones are as loaded, and no
\* later entry was called.
C10_FailureKeepsProgress ==
  (IsEval /\ pc = "failed" /\ idx >= 1)
    => /\ \A i \in Called : i <= idx
       /\ \A i \in Called \ {idx} :
            /\ OneAppended(i)
            /\ Exists(fs, JsonPath)
            /\ Record.evaluation[i].judgments = item.evaluation[i].judgments
       /\ \A i \in idx..Len(item.evaluation) :
            item.evaluation[i] = item0.evaluation[i]

\* the run judged and saved the first entry and failed on the second
C10_Witness ==
  /\ IsEval /\ pc = "failed"
  /\ idx = 2
  /\ 1 \in Called

\* ===================================================================
\* Records: loading a JSON record, saving the item, loading it again
\* ===================================================================

\* the longest judgments list and the longest evaluation list of a record
MaxRecJudgments == 2
MaxRecEntries == 1

SeqsUpTo(S, n) == UNION {[1..k -> S] : k \in 0..n}

\* elements a judgments list of a file can hold: a complete judgment object,
\* an object with keys missing, and a value that is no object
RecJudgments ==
  {Judgment(E1, G1, "a", "1"),
   [gen_model |-> G2, answer |-> "0"],
   Scalar("x")}

RecJudgmentLists == SeqsUpTo(RecJudgments, MaxRecJudgments)

\* entry objects: every key present, or only some of them
RecEntries ==
  {[source |-> "seed", ground |-> "g", question |-> "Is there a title?",
    question_type |-> "t", judgments |-> js] : js \in RecJudgmentLists}
  \cup {[question |-> "Is there a title?", judgments |-> js] : js \in RecJudgmentLists}
  \cup {[source |-> "prompt", ground |-> "g"]}

\* the top-level keys other than evaluation
RecTops ==
  {[id |-> ItemId],
   [id |-> ItemId, t2i_prompt |-> <<"draw a chart">>],
   [id |-> ItemId, generation |-> (G1 :> resolve_image_path(ItemId, G1, OutputDir))],
   [id |-> ItemId, reference_image_url |-> <<"http://r">>,
    t2i_prompt |-> <<"draw a chart">>, chart_type |-> <<"bar">>,
    generation |-> (G2 :> resolve_image_path(ItemId, G2, OutputDir))],
   [t2i_prompt |-> <<"draw a chart">>],
   EmptyMap}

\* dict | {"evaluation": ev}
WithEvaluation(top, ev) ==
  [k \in DOMAIN top \cup {"evaluation"} |->
     IF k = "evaluation" THEN ev ELSE top[k]]

Records ==
  RecTops \cup {WithEvaluation(top, ev) :
                  top \in RecTops, ev \in SeqsUpTo(RecEntries, MaxRecEntries)}

InitRecord ==
  /\ fs \in {[p \in {SeedPath} |-> r] : r \in Records}
  /\ pc = "idle"
  /\ item = NoItem
  /\ resume = FALSE
  /\ gen_model = None
  /\ eval_model = None
  /\ idx = 0
  /\ calls = <<>>
  /\ gen_calls = 0
  /\ item0 = NoItem
  /\ fs0 = fs
  /\ runs = 0
  /\ filename = None
  /\ procs = <<>>
  /\ last_writer = 0
  /\ error = None
  /\ result = None
  /\ call = None

\* a load that fills in a missing id instead of failing
RecLoadFails_DefaultId ==
  /\ pc = "idle"
  /\ "id" \notin DOMAIN fs[SeedPath]
  /\ item' = FromDict([k \in DOMAIN fs[SeedPath] \cup {"id"} |->
                         IF k = "id" THEN ItemId ELSE fs[SeedPath][k]])
  /\ item0' = item'
  /\ pc' = "loaded"
  /\ UNCHANGED <<fs, resume, gen_model, eval_model, idx, calls, gen_calls,
                 fs0, runs>>
  /\ UNCHANGED <<filename, procs, last_writer, error, result, call>>

\* VISItem.from_dict(path): info_data["id"] raises KeyError without the key
RecLoadFails ==
  /\ pc = "idle"
  /\ "id" \notin DOMAIN fs[SeedPath]
  /\ pc' = "load_error"
  /\ UNCHANGED <<fs, item, resume, gen_model, eval_model, idx, calls,
                 gen_calls, item0, fs0, runs>>
  /\ UNCHANGED <<filename, procs, last_writer, error, result, call>>

\* VISItem.from_dict(path)
RecLoad ==
  /\ pc = "idle"
  /\ "id" \in DOMAIN fs[SeedPath]
  /\ item' = FromDict(fs[SeedPath])
  /\ item0' = item'
  /\ pc' = "loaded"
  /\ UNCHANGED <<fs, resume, gen_model, eval_model, idx, calls, gen_calls,
                 fs0, runs>>
  /\ UNCHANGED <<filename, procs, last_writer, error, result, call>>

\* item.save_item(output_dir)
RecSave ==
  /\ pc = "loaded"
  /\ fs' = save_item(fs, OutputDir, item)
  /\ pc' = "saved"
  /\ UNCHANGED <<item, resume, gen_model, eval_model, idx, calls, gen_calls,
                 item0, fs0, runs>>
  /\ UNCHANGED <<filename, procs, last_writer, error, result, call>>

\* VISItem.from_dict(saved path)
RecReload ==
  /\ pc = "saved"
  /\ item' = FromDict(fs[build_save_path(OutputDir, item.id)])
  /\ pc' = "reloaded"
  /\ UNCHANGED <<fs, resume, gen_model, eval_model, idx, calls, gen_calls,
                 item0, fs0, runs>>
  /\ UNCHANGED <<filename, procs, last_writer, error, result, call>>

NextRecord == RecLoadFails \/ RecLoad \/ RecSave \/ RecReload

SpecRecord == InitRecord /\ [][NextRecord]_vars

\* -------------------------------------------------------------------
\* C11: the item loaded from the file that save_item wrote equals, field
\* for field (id, reference_image_url, t2i_prompt, chart_type, generation,
\* every entry and its judgments in order), the item that was saved
C11_RoundTrip ==
  pc = "reloaded" =>
    /\ item = item0
    /\ fs[build_save_path(OutputDir, item0.id)] = ToDict(item0)

C11_Witness ==
  /\ pc = "reloaded"
  /\ item0.generation # EmptyMap
  /\ item0.t2i_prompt # None
  /\ Len(item0.evaluation) = 1
  /\ item0.evaluation[1].source = "seed"
  /\ Len(item0.evaluation[1].judgments) = 2
  /\ item0.evaluation[1].judgments[1] # item0.evaluation[1].judgments[2]

\* -------------------------------------------------------------------
\* C19: loading a JSON object without an id key fails and yields no item;
\* loading one with an id succeeds, and a key that is absent leaves its
\* field at the default: generation the empty map, evaluation the empty
\* sequence, the optional strings None
C19_LoadNeedsId ==
  [][pc = "idle" =>
       LET info_data == fs[SeedPath]
       IN  IF "id" \notin DOMAIN info_data
           THEN pc' = "load_error" /\ item' = NoItem
           ELSE /\ pc' = "loaded"
                /\ item'.id = info_data.id
                /\ "generation" \notin DOMAIN info_data
                     => item'.generation = EmptyMap
                /\ "evaluation" \notin DOMAIN info_data
                     => item'.evaluation = <<>>
                /\ \A k \in {"reference_image_url", "t2i_prompt", "chart_type"} :
                     k \notin DOMAIN info_data => item'[k] = None]_vars

C19_Witness ==
  /\ pc = "load_error"
  /\ "t2i_prompt" \in DOMAIN fs[SeedPath]

C19_WitnessDefaults ==
  /\ pc = "loaded"
  /\ DOMAIN fs[SeedPath] = {"id"}
  /\ item.generation = EmptyMap
  /\ item.evaluation = <<>>

\* -------------------------------------------------------------------
\* C20 as stated: the loaded judgments list of every entry has as many
\* elements as the list in the file
FileJudgments(n) == Get(fs[SeedPath].evaluation[n], "judgments", <<>>)

C20_SameLength ==
  pc = "loaded" =>
    \A n \in 1..Len(item.evaluation) :
      Len(item.evaluation[n].judgments) = Len(FileJudgments(n))

\* C20 amended: a load never stops at a judgment element; the loaded list
\* holds, in file order, one Judgment for every element that is a JSON
\* object, its missing subfields empty, and no element for the others
C20_ObjectsLoaded ==
  [][pc = "idle" /\ "id" \in DOMAIN fs[SeedPath] =>
       /\ pc' = "loaded"
       /\ \A n \in 1..Len(item'.evaluation) :
            LET objects == SelectSeq(FileJudgments(n), IsDict)
                loaded == item'.evaluation[n].judgments
            IN  /\ Len(loaded) = Len(objects)
                /\ \A k \in 1..Len(objects) :
                     /\ loaded[k].eval_model =
                          (IF "eval_model" \in DOMAIN objects[k]
                           THEN objects[k].eval_model ELSE <<>>)
                     /\ loaded[k].gen_model =
                          (IF "gen_model" \in DOMAIN objects[k]
                           THEN objects[k].gen_model ELSE <<>>)
                     /\ loaded[k].analysis =
                          (IF "analysis" \in DOMAIN objects[k]
                           THEN objects[k].analysis ELSE "")
                     /\ loaded[k].answer =
                          (IF "answer" \in DOMAIN objects[k]
                           THEN objects[k].answer ELSE "")]_vars

C20_Witness ==
  /\ pc = "loaded"
  /\ Len(item.evaluation) = 1
  /\ Len(FileJudgments(1)) = 2
  /\ ~IsDict(FileJudgments(1)[1])
  /\ DOMAIN FileJudgments(1)[2] = {"gen_model", "answer"}
  /\ item.evaluation[1].judgments = <<Judgment(<<>>, G2, "", "0")>>

\* -------------------------------------------------------------------
\* C12: after a generation run that generated for the model, the item maps
\* the model name as the caller gave it to R/X/X_{normalised name}.png, the
\* normalised name is no key of the map unless the caller gave it, and the
\* record saved at R/X/X.json holds the same entry
NormalisedName(m) == IF m = G1 THEN <<"g", "_", "1">> ELSE <<"g", "2">>

ExpectedImagePath(m) ==
  <<OutputDir, "/", ItemId, "/", ItemId, "_">> \o NormalisedName(m) \o <<".png">>

Generated == IsGen /\ pc \in {"final_save", "done"} /\ gen_calls = 1

C12_RawNameKeyed ==
  Generated =>
    /\ gen_model \in DOMAIN item.generation
    /\ item.generation[gen_model] = ExpectedImagePath(gen_model)
    /\ DOMAIN item.generation \subseteq GenModels
    /\ gen_model \in DOMAIN fs[JsonPath].generation
    /\ fs[JsonPath].generation[gen_model] = ExpectedImagePath(gen_model)
    /\ Exists(fs, ExpectedImagePath(gen_model))

C12_Witness ==
  /\ Generated /\ pc = "done"
  /\ gen_model = G2
  /\ fs[JsonPath].generation[G2] = <<"outputs", "/", "42", "/", "42", "_", "g", "2", ".png">>

\* ===================================================================
\* Names: the image filename built from a model name
\* ===================================================================

\* the longest model name, in characters
MaxNameLen == 5

\* a lower-case letter, an upper-case letter and the characters the
\* normalisation looks at
NameChars == {"a", "B", "-", ".", "/"}

Names == SeqsUpTo(NameChars, MaxNameLen)

InitNames ==
  /\ fs = <<>>
  /\ pc = "idle"
  /\ item = NoItem
  /\ resume = FALSE
  /\ gen_model \in Names
  /\ eval_model = None
  /\ idx = 0
  /\ calls = <<>>
  /\ gen_calls = 0
  /\ item0 = NoItem
  /\ fs0 = fs
  /\ runs = 0
  /\ filename = None
  /\ procs = <<>>
  /\ last_writer = 0
  /\ error = None
  /\ result = None
  /\ call = None

\* ModelNameResolver.build_image_filename(item_id, model_name)
BuildFilename ==
  /\ pc = "idle"
  /\ filename' = build_image_filename(ItemId, gen_model)
  /\ pc' = "named"
  /\ UNCHANGED <<fs, item, resume, gen_model, eval_model, idx, calls,
                 gen_calls, item0, fs0, runs, procs, last_writer, error, result, call>>

NextNames == BuildFilename

SpecNames == InitNames /\ [][NextNames]_vars

\* -------------------------------------------------------------------
\* C13: the filename is {id}_{normalised name}.png, where the normalised
\* name is the part of the model name after its last '/' (the whole name
\* when it has none) with every '-' and '.' replaced by '_' and every other
\* character, letter case included, as it was
RECURSIVE LastIndex(_, _, _)
LastIndex(s, c, n) ==
  IF n = 0 THEN 0
  ELSE IF s[n] = c THEN n
       ELSE LastIndex(s, c, n - 1)

AfterLastSlash(s) == SubSeq(s, LastIndex(s, "/", Len(s)) + 1, Len(s))

ClaimedNormalised(s) ==
  [n \in 1..Len(AfterLastSlash(s)) |->
     IF AfterLastSlash(s)[n] \in {"-", "."} THEN "_" ELSE AfterLastSlash(s)[n]]

C13_AfterLastSlash ==
  pc = "named" =>
    filename = <<ItemId, "_">> \o ClaimedNormalised(gen_model) \o <<".png">>

\* the failing input a/B/a: the code keeps B, the part after the last '/' is a
C13_Witness ==
  /\ pc = "named"
  /\ gen_model = <<"a", "/", "B", "/", "a">>
  /\ filename = <<ItemId, "_", "B", ".png">>

\* ===================================================================
\* Library use: one in-memory item, the caller adds judgments, records
\* generations and hands the item to the drivers
\* ===================================================================

\* the calls the caller makes on the item (runs counts them here)
MaxOps == 3

\* an image that is on disk before the caller starts
ExistingImage == <<"datasets", "/", "ref.png">>

ApiPaths == {ExistingImage, resolve_image_path(ItemId, G1, OutputDir)}

ApiSeeds ==
  {[id |-> ItemId, t2i_prompt |-> <<"draw a chart">>,
    evaluation |-> <<SeedEntry("Is there a title?", <<>>),
                     SeedEntry("Is there a title?", <<Judgment(E1, G1, "a", "1")>>)>>],
   [id |-> ItemId, t2i_prompt |-> <<>>,
    evaluation |-> <<SeedEntry("", <<>>)>>],
   [id |-> ItemId, evaluation |-> <<>>]}

InitApi ==
  /\ fs \in {[p \in {SeedPath, ExistingImage} |->
                IF p = SeedPath THEN seed ELSE Png] : seed \in ApiSeeds}
  /\ pc = "idle"
  /\ item = NoItem
  /\ resume = FALSE
  /\ gen_model = None
  /\ eval_model = None
  /\ idx = 0
  /\ calls = <<>>
  /\ gen_calls = 0
  /\ item0 = NoItem
  /\ fs0 = fs
  /\ runs = 0
  /\ filename = None
  /\ procs = <<>>
  /\ last_writer = 0
  /\ error = None
  /\ result = None
  /\ call = None

\* item = VISItem.from_dict(path)
ApiLoad ==
  /\ pc = "idle"
  /\ item' = FromDict(fs[SeedPath])
  /\ item0' = item'
  /\ pc' = "ready"
  /\ UNCHANGED <<fs, resume, gen_model, eval_model, idx, calls, gen_calls,
                 fs0, runs, filename, procs, last_writer, error, result, call>>

\* an add_judgment that replaces the judgment of the same pair of models
add_judgment_Replace(entry, g, e, analysis, answer) ==
  [entry EXCEPT !.judgments =
     Append(SelectSeq(@, LAMBDA j : ~(j.gen_model = g /\ j.eval_model = e)),
            Judgment(e, g, analysis, answer))]

\* EvalEntry.add_judgment
add_judgment(entry, g, e, analysis, answer) ==
  [entry EXCEPT !.judgments = Append(@, Judgment(e, g, analysis, answer))]

\* item.evaluation[n].add_judgment(g, e, "a", answer)
ApiAddJudgment(n, g, e, answer) ==
  /\ pc = "ready"
  /\ runs < MaxOps
  /\ n \in 1..Len(item.evaluation)
  /\ item' = [item EXCEPT !.evaluation[n] = add_judgment(@, g, e, "a", answer)]
  /\ runs' = runs + 1
  /\ UNCHANGED <<fs, pc, resume, gen_model, eval_model, idx, calls,
                 gen_calls, item0, fs0, filename, procs, last_writer, error, result, call>>

\* item.update_generation(m, path)
ApiUpdateGeneration(m, path) ==
  /\ pc = "ready"
  /\ runs < MaxOps
  /\ item' = update_generation(item, m, path)
  /\ runs' = runs + 1
  /\ UNCHANGED <<fs, pc, resume, gen_model, eval_model, idx, calls,
                 gen_calls, item0, fs0, filename, procs, last_writer, error, result, call>>

\* EvalWorkflow(gen_model=g, eval_model=e, resume=r).run(item)
ApiEvalRun(r, g, e) ==
  /\ pc = "ready"
  /\ runs < MaxOps
  /\ resume' = r
  /\ gen_model' = g
  /\ eval_model' = e
  /\ idx' = 0
  /\ calls' = <<>>
  /\ item0' = item
  /\ fs0' = fs
  /\ runs' = runs + 1
  /\ pc' = "eval_run"
  /\ UNCHANGED <<fs, item, gen_calls, filename, procs, last_writer, error, result, call>>

\* GenWorkflow(model=m, resume=r).run(item)
ApiGenRun(r, m) ==
  /\ pc = "ready"
  /\ runs < MaxOps
  /\ resume' = r
  /\ gen_model' = m
  /\ eval_model' = None
  /\ gen_calls' = 0
  /\ item0' = item
  /\ fs0' = fs
  /\ runs' = runs + 1
  /\ pc' = "gen_run"
  /\ UNCHANGED <<fs, item, idx, calls, filename, procs, last_writer, error, result, call>>

\* run returned the item, or raised: the caller has the item again
ApiReturn ==
  /\ pc \in {"final_save", "failed"}
  /\ pc' = "ready"
  /\ UNCHANGED <<fs, item, resume, gen_model, eval_model, idx, calls,
                 gen_calls, item0, fs0, runs, filename, procs, last_writer, error, result, call>>

\* what item.check_evaluation_complete(g, e) and has_judgment(g, e) of
\* every entry return
Checks(it, g, e) ==
  [gen_model |-> g, eval_model |-> e,
   complete |-> check_evaluation_complete(it, g, e),
   judged |-> [n \in 1..Len(it.evaluation) |-> has_judgment(it.evaluation[n], g, e)]]

\* a check that notes its answer in the item: it adds the judgment it missed
ApiCheckComplete_Marks(g, e) ==
  /\ pc = "ready"
  /\ result' = Checks(item, g, e)
  /\ item' = [item EXCEPT !.evaluation =
       [n \in 1..Len(item.evaluation) |->
          IF has_judgment(item.evaluation[n], g, e) THEN item.evaluation[n]
          ELSE add_judgment(item.evaluation[n], g, e, "", "")]]
  /\ pc' = "checked"
  /\ UNCHANGED <<fs, resume, gen_model, eval_model, idx, calls, gen_calls,
                 item0, fs0, runs, filename, procs, last_writer, error, call>>

\* EvalEngine.check_fully_evaluated(item, g, e), has_judgment on each entry
ApiCheckComplete(g, e) ==
  /\ pc = "ready"
  /\ result' = Checks(item, g, e)
  /\ pc' = "checked"
  /\ UNCHANGED <<fs, item, resume, gen_model, eval_model, idx, calls,
                 gen_calls, item0, fs0, runs, filename, procs, last_writer,
                 error, call>>

\* the same calls once more, nothing done in between
ApiCheckAgain ==
  /\ pc = "checked"
  /\ result' = Checks(item, result.gen_model, result.eval_model)
  /\ pc' = "rechecked"
  /\ UNCHANGED <<fs, item, resume, gen_model, eval_model, idx, calls,
                 gen_calls, item0, fs0, runs, filename, procs, last_writer,
                 error, call>>

\* the caller goes on with the item
ApiCheckDone ==
  /\ pc = "rechecked"
  /\ result' = None
  /\ pc' = "ready"
  /\ UNCHANGED <<fs, item, resume, gen_model, eval_model, idx, calls,
                 gen_calls, item0, fs0, runs, filename, procs, last_writer,
                 error, call>>

NextApi ==
  \/ ApiLoad
  \/ \E g \in GenModels : ApiCheckComplete(g, E1)
  \/ ApiCheckAgain
  \/ ApiCheckDone
  \/ \E n \in 1..MaxEntries, g \in GenModels, answer \in Answers :
       ApiAddJudgment(n, g, E1, answer)
  \/ \E m \in GenModels, path \in ApiPaths : ApiUpdateGeneration(m, path)
  \/ \E r \in BOOLEAN, g \in GenModels : ApiEvalRun(r, g, E1)
  \/ \E r \in BOOLEAN, m \in GenModels : ApiGenRun(r, m)
  \/ ApiReturn
  \/ EvalRunComplete
  \/ EvalRunNoQuestions
  \/ EvalRunLoop
  \/ EvalSkip
  \/ EvalJudgeNoQuestion
  \/ EvalJudgeFails
  \/ \E answer \in Answers : EvalJudge(answer)
  \/ EvalSave
  \/ EvalReturn
  \/ GenSkip
  \/ GenNoPrompt
  \/ GenFails
  \/ Generate

SpecApi == InitApi /\ [][NextApi]_vars

\* -------------------------------------------------------------------
\* C14: whatever the caller or a driver does to the item, every entry's
\* judgments list before the step is a prefix of the list after it
IsPrefix(s, t) == Len(s) <= Len(t) /\ SubSeq(t, 1, Len(s)) = s

C14_AppendOnly ==
  [][pc # "idle" =>
       /\ Len(item'.evaluation) = Len(item.evaluation)
       /\ \A n \in 1..Len(item.evaluation) :
            IsPrefix(item.evaluation[n].judgments, item'.evaluation[n].judgments)]_vars

\* an entry that got a judgment from add_judgment and then one from a run
\* that judged its pair of models a second time
C14_Witness ==
  /\ pc = "ready"
  /\ Len(item.evaluation) = 2
  /\ item.evaluation[2].judgments =
       <<Judgment(E1, G1, "a", "1"), Judgment(E1, G2, "a", "1"),
         Judgment(E1, G1, "a", "1")>>
  /\ calls = <<1, 2>>

\* -------------------------------------------------------------------
\* C15: no step on the in-memory item removes a key of item.generation; a
\* write for a model (update_generation, or a run that generated) leaves
\* the written path under that model and every other entry as it was; any
\* other step leaves the map as it was
WriteOf(m, path) ==
  \/ ApiUpdateGeneration(m, path)
  \/ Generate /\ m = gen_model /\ path = resolve_image_path(item.id, m, OutputDir)

WrittenPaths == ApiPaths \cup ImagePaths

C15_LastWriteWins ==
  [][pc # "idle" =>
       /\ DOMAIN item.generation \subseteq DOMAIN item'.generation
       /\ \A m \in GenModels, path \in WrittenPaths :
            WriteOf(m, path) =>
              /\ item'.generation[m] = path
              /\ \A k \in DOMAIN item.generation \ {m} :
                   item'.generation[k] = item.generation[k]
       /\ (~ \E m \in GenModels, path \in WrittenPaths : WriteOf(m, path))
            => item'.generation = item.generation]_vars

\* the caller recorded a path for G1 and for G2, then a run generated for
\* G1: its path replaced the one of G1, the entry of G2 stayed
C15_Witness ==
  /\ pc = "ready"
  /\ gen_calls = 1 /\ gen_model = G1
  /\ DOMAIN item0.generation = {G1, G2}
  /\ item0.generation[G1] = ExistingImage
  /\ item.generation[G1] = resolve_image_path(ItemId, G1, OutputDir)
  /\ item.generation[G2] = ExistingImage

\* -------------------------------------------------------------------
\* C17: the judging step of an entry whose question is empty ends the run
\* with an error, the judgment capability is not called for it, and no
\* judgment is appended (the item and the files stay as they were)
Judging ==
  /\ pc = "eval_loop"
  /\ idx <= Len(item.evaluation)
  /\ ~(resume /\ \E n \in 1..Len(item.evaluation[idx].judgments) :
                   Matches(item.evaluation[idx].judgments[n], gen_model, eval_model))

C17_EmptyQuestionFails ==
  [][Judging /\ item.evaluation[idx].question = "" =>
       /\ pc' = "failed"
       /\ calls' = calls
       /\ item' = item
       /\ fs' = fs]_vars

C17_Witness ==
  /\ IsEval /\ pc = "failed"
  /\ idx = 2 /\ calls = <<1>>
  /\ item.evaluation[2].question = ""
  /\ item.evaluation[2].judgments = <<>>
  /\ Len(item.evaluation[1].judgments) = 1

\* -------------------------------------------------------------------
\* C18 as stated: every generation run on an item without a prompt ends
\* with an error, without a call, a file written or the item changed
GenRunEnded == eval_model = None /\ pc \in {"final_save", "failed"}

NoPrompt(it) == it.t2i_prompt = None \/ it.t2i_prompt = <<>>

C18_NoPromptFails ==
  GenRunEnded /\ NoPrompt(item0) =>
    pc = "failed" /\ gen_calls = 0 /\ fs = fs0 /\ item = item0

\* C18 amended: such a run calls nothing, writes nothing and leaves the
\* item as it was; it ends with an error unless resume is on and the item
\* records for the model an image that is on disk, and then it returns the
\* item without an error
C18_NoPromptNoCall ==
  GenRunEnded /\ NoPrompt(item0) =>
    /\ gen_calls = 0 /\ fs = fs0 /\ item = item0
    /\ pc = "final_save" <=>
         /\ resume
         /\ gen_model \in DOMAIN item0.generation
         /\ Exists(fs0, item0.generation[gen_model])

C18_Witness ==
  /\ GenRunEnded /\ pc = "failed"
  /\ item0.t2i_prompt = <<>>
  /\ resume
  /\ gen_model \in DOMAIN item0.generation
  /\ ~Exists(fs0, item0.generation[gen_model])

C18_WitnessSkipped ==
  /\ GenRunEnded /\ pc = "final_save"
  /\ item0.t2i_prompt = None
  /\ gen_calls = 0

\* ===================================================================
\* Concurrency: two CLI processes on the same item id and output root
\* ===================================================================

Procs == {1, 2}

\* the model both processes generate or judge for
ConcGenModel == G1

ConcSeeds ==
  {[id |-> ItemId, t2i_prompt |-> <<"draw a chart">>,
    evaluation |-> <<SeedEntry("Is there a title?", <<>>),
                     SeedEntry("Is there a legend?", <<>>)>>]}

\* the file between open(save_path, "w") and the write: no bytes
Truncated == [bytes |-> "none"]

\* a file that holds bytes of two writes and is no JSON text
Torn == [bytes |-> "mixed"]

\* json.load succeeds
Readable(content) == content \notin {Truncated, Torn}

\* a write that merges the record into the one in the file
WriteOver_Merged(current, mine) ==
  IF current = Truncated THEN {mine}
  ELSE {[mine EXCEPT !.evaluation =
           [n \in 1..Len(mine.evaluation) |->
              [mine.evaluation[n] EXCEPT !.judgments =
                 @ \o Get(current, "evaluation", mine.evaluation)[n].judgments]]]}

\* what the file can hold after a process writes its text at offset 0: its
\* own text, or, when another write landed after this process had opened the
\* file, its text followed by the rest of the other one if that one is longer
WriteOver(current, mine) ==
  IF current = Truncated THEN {mine} ELSE {mine, Torn}

NotStarted ==
  [pc |-> "idle", resume |-> FALSE, eval_model |-> None, item |-> NoItem,
   idx |-> 0, after |-> "none"]

InitConc ==
  /\ fs \in {[p \in {SeedPath} |-> seed] : seed \in ConcSeeds}
  /\ pc = "idle"
  /\ item = NoItem
  /\ resume = FALSE
  /\ gen_model = None
  /\ eval_model = None
  /\ idx = 0
  /\ calls = <<>>
  /\ gen_calls = 0
  /\ item0 = NoItem
  /\ fs0 = fs
  /\ runs = 0
  /\ filename = None
  /\ procs = [p \in Procs |-> NotStarted]
  /\ last_writer = 0
  /\ error = None
  /\ result = None
  /\ call = None

ConcFrame ==
  UNCHANGED <<pc, item, resume, gen_model, eval_model, idx, calls, gen_calls,
              item0, fs0, runs, filename, error, result, call>>

\* the CLI loads the item: from the seed, or under resume from the record
\* in the output directory when there is one
PStart(p, r, e) ==
  /\ procs[p].pc = "idle"
  /\ r /\ Exists(fs, JsonPath) => Readable(fs[JsonPath])
  /\ procs' = [procs EXCEPT ![p] =
       [pc |-> IF e = None THEN "gen_run" ELSE "eval_run",
        resume |-> r, eval_model |-> e,
        item |-> load_item(fs, OutputDir, SeedPath, r),
        idx |-> 0, after |-> "none"]]
  /\ UNCHANGED <<fs, last_writer>>
  /\ ConcFrame

\* under resume json.load meets a file that is empty or torn: ValueError
PStartFails(p, e) ==
  /\ procs[p].pc = "idle"
  /\ Exists(fs, JsonPath) /\ ~Readable(fs[JsonPath])
  /\ procs' = [procs EXCEPT ![p] =
       [@ EXCEPT !.pc = "failed", !.resume = TRUE, !.eval_model = e]]
  /\ UNCHANGED <<fs, last_writer>>
  /\ ConcFrame

\* EvalWorkflow.run up to the loop of _evaluate_all
PEvalBegin(p) ==
  /\ procs[p].pc = "eval_run"
  /\ procs' = [procs EXCEPT ![p] =
       IF @.resume /\ check_evaluation_complete(@.item, ConcGenModel, @.eval_model)
       THEN [@ EXCEPT !.pc = "save_open", !.after = "done"]
       ELSE IF @.item.evaluation = <<>>
            THEN [@ EXCEPT !.pc = "failed"]
            ELSE [@ EXCEPT !.pc = "eval_loop", !.idx = 1]]
  /\ UNCHANGED <<fs, last_writer>>
  /\ ConcFrame

\* the loop's "continue"
PEvalSkip(p) ==
  /\ procs[p].pc = "eval_loop"
  /\ procs[p].idx <= Len(procs[p].item.evaluation)
  /\ SkipEntry(procs[p].resume, procs[p].item.evaluation[procs[p].idx],
               ConcGenModel, procs[p].eval_model)
  /\ procs' = [procs EXCEPT ![p].idx = @ + 1]
  /\ UNCHANGED <<fs, last_writer>>
  /\ ConcFrame

\* judge_entry raises: the question is empty or the capability fails
PEvalFails(p) ==
  /\ procs[p].pc = "eval_loop"
  /\ procs[p].idx <= Len(procs[p].item.evaluation)
  /\ ~SkipEntry(procs[p].resume, procs[p].item.evaluation[procs[p].idx],
                ConcGenModel, procs[p].eval_model)
  /\ procs' = [procs EXCEPT ![p].pc = "failed"]
  /\ UNCHANGED <<fs, last_writer>>
  /\ ConcFrame

\* judge_entry returns and the judgment is appended; save_item comes next
PEvalJudge(p, answer) ==
  /\ procs[p].pc = "eval_loop"
  /\ procs[p].idx <= Len(procs[p].item.evaluation)
  /\ ~SkipEntry(procs[p].resume, procs[p].item.evaluation[procs[p].idx],
                ConcGenModel, procs[p].eval_model)
  /\ procs[p].item.evaluation[procs[p].idx].question # ""
  /\ procs' = [procs EXCEPT ![p] =
       [@ EXCEPT !.item = AppendJudgment(procs[p].item, procs[p].idx,
                            Judgment(procs[p].eval_model, ConcGenModel, "a", answer)),
                 !.pc = "save_open", !.after = "eval_loop"]]
  /\ UNCHANGED <<fs, last_writer>>
  /\ ConcFrame

\* the loop ends, run returns, the CLI saves the item
PEvalReturn(p) ==
  /\ procs[p].pc = "eval_loop"
  /\ procs[p].idx > Len(procs[p].item.evaluation)
  /\ procs' = [procs EXCEPT ![p] = [@ EXCEPT !.pc = "save_open", !.after = "done"]]
  /\ UNCHANGED <<fs, last_writer>>
  /\ ConcFrame

\* GenWorkflow.run returns the item at once, the CLI saves it
PGenSkip(p) ==
  /\ procs[p].pc = "gen_run"
  /\ GenAlreadyDone(fs, procs[p].item, procs[p].resume, ConcGenModel)
  /\ procs' = [procs EXCEPT ![p] = [@ EXCEPT !.pc = "save_open", !.after = "done"]]
  /\ UNCHANGED <<fs, last_writer>>
  /\ ConcFrame

\* text2image raises: there is no prompt or the capability fails
PGenFails(p) ==
  /\ procs[p].pc = "gen_run"
  /\ ~GenAlreadyDone(fs, procs[p].item, procs[p].resume, ConcGenModel)
  /\ procs' = [procs EXCEPT ![p].pc = "failed"]
  /\ UNCHANGED <<fs, last_writer>>
  /\ ConcFrame

\* the image is written and recorded; save_item comes next, then the CLI's
PGenerate(p) ==
  /\ procs[p].pc = "gen_run"
  /\ ~GenAlreadyDone(fs, procs[p].item, procs[p].resume, ConcGenModel)
  /\ ~Falsy(procs[p].item.t2i_prompt)
  /\ LET image_path == resolve_image_path(procs[p].item.id, ConcGenModel, OutputDir)
     IN  /\ fs' = WriteFile(fs, image_path, Png)
         /\ procs' = [procs EXCEPT ![p] =
              [@ EXCEPT !.item = update_generation(procs[p].item, ConcGenModel, image_path),
                        !.pc = "save_open", !.after = "final_save"]]
  /\ UNCHANGED last_writer
  /\ ConcFrame

\* VISItem.save_item: open(save_path, "w") creates or empties the file
PSaveOpen(p) ==
  /\ procs[p].pc = "save_open"
  /\ fs' = WriteFile(fs, build_save_path(OutputDir, procs[p].item.id), Truncated)
  /\ procs' = [procs EXCEPT ![p].pc = "save_write"]
  /\ UNCHANGED last_writer
  /\ ConcFrame

\* VISItem.save_item: json.dump and close put the text into the file
PSaveWrite(p) ==
  /\ procs[p].pc = "save_write"
  /\ LET save_path == build_save_path(OutputDir, procs[p].item.id)
     IN  \E content \in WriteOver(fs[save_path], ToDict(procs[p].item)) :
           fs' = WriteFile(fs, save_path, content)
  /\ last_writer' = p
  /\ procs' = [procs EXCEPT ![p] =
       IF @.after = "eval_loop"
       THEN [@ EXCEPT !.pc = "eval_loop", !.idx = @ + 1]
       ELSE IF @.after = "final_save"
            THEN [@ EXCEPT !.pc = "save_open", !.after = "done"]
            ELSE [@ EXCEPT !.pc = "done"]]
  /\ ConcFrame

NextConc ==
  \E p \in Procs :
    \/ \E r \in BOOLEAN, e \in EvalModels \cup {None} : PStart(p, r, e)
    \/ \E e \in EvalModels \cup {None} : PStartFails(p, e)
    \/ PEvalBegin(p)
    \/ PEvalSkip(p)
    \/ PEvalFails(p)
    \/ \E answer \in Answers : PEvalJudge(p, answer)
    \/ PEvalReturn(p)
    \/ PGenSkip(p)
    \/ PGenFails(p)
    \/ PGenerate(p)
    \/ PSaveOpen(p)
    \/ PSaveWrite(p)

SpecConc == InitConc /\ [][NextConc]_vars

\* -------------------------------------------------------------------
\* C16 as stated: once both processes have ended, the record file equals
\* the in-memory record of the process that wrote it last
AllDone == \A p \in Procs : procs[p].pc \in {"done", "failed"}

C16_WitnessTorn ==
  /\ AllDone
  /\ Exists(fs, JsonPath)
  /\ fs[JsonPath] = Torn

\* ===================================================================
\* Errors: ErrorHandler.classify_error and should_retry
\* ===================================================================

SYSTEM_KEYWORDS ==
  {"out of memory", "disk full", "no space left", "memory error",
   "permission denied", "access denied"}

RECOVERABLE_KEYWORDS ==
  {"rate limit", "timeout", "connection", "network", "temporary", "503",
   "502", "429", "quota exceeded", "service unavailable",
   "generated questions are invalid or empty"}

PERMANENT_KEYWORDS ==
  {"not found", "invalid", "malformed", "bad request", "404", "401", "403",
   "400"}

\* the longest message, in fragments
MaxWords == 2

\* A message is a sequence of fragments. A fragment is the text of one
\* keyword, in some letter case, or a text that holds no keyword
Fragments ==
  {"Disk Full", "timeout", "Rate Limit", "503", "500", "invalid",
   "Question is required"}

ErrorTypes ==
  {"ValueError", "KeyError", "FileNotFoundError", "TypeError", "MemoryError",
   "OSError", "PermissionError", "ConnectionError", "Timeout", "HTTPError",
   "RuntimeError"}

\* str.lower() on the texts above
Lower(t) ==
  CASE t = "Disk Full" -> "disk full"
    [] t = "Rate Limit" -> "rate limit"
    [] t = "Question is required" -> "question is required"
    [] t = "ValueError" -> "valueerror"
    [] t = "KeyError" -> "keyerror"
    [] t = "FileNotFoundError" -> "filenotfounderror"
    [] t = "TypeError" -> "typeerror"
    [] t = "MemoryError" -> "memoryerror"
    [] t = "OSError" -> "oserror"
    [] t = "PermissionError" -> "permissionerror"
    [] t = "ConnectionError" -> "connectionerror"
    [] t = "Timeout" -> "timeout"
    [] t = "HTTPError" -> "httperror"
    [] t = "RuntimeError" -> "runtimeerror"
    [] OTHER -> t

\* any(keyword in error_str for keyword in keywords), error_str lower-cased
AnyKeyword(keywords, message) ==
  \E n \in 1..Len(message) : Lower(message[n]) \in keywords

\* a classification that looks at the exception type before the message
classify_error_TypesFirst(e) ==
  LET error_type == Lower(e.type)
  IN  IF error_type \in {"memoryerror", "oserror", "permissionerror"}
      THEN "SYSTEM"
      ELSE IF error_type \in {"connectionerror", "timeout", "httperror"}
      THEN "RECOVERABLE"
      ELSE IF error_type \in {"valueerror", "typeerror", "keyerror", "filenotfounderror"}
      THEN "PERMANENT"
      ELSE IF AnyKeyword(SYSTEM_KEYWORDS, e.message) THEN "SYSTEM"
      ELSE IF AnyKeyword(PERMANENT_KEYWORDS, e.message) THEN "PERMANENT"
      ELSE "RECOVERABLE"

\* ErrorHandler.classify_error
classify_error(e) ==
  LET error_type == Lower(e.type)
  IN  IF AnyKeyword(SYSTEM_KEYWORDS, e.message) THEN "SYSTEM"
      ELSE IF error_type \in {"memoryerror", "oserror", "permissionerror"}
      THEN "SYSTEM"
      ELSE IF AnyKeyword(RECOVERABLE_KEYWORDS, e.message) THEN "RECOVERABLE"
      ELSE IF error_type \in {"connectionerror", "timeout", "httperror"}
      THEN "RECOVERABLE"
      ELSE IF AnyKeyword(PERMANENT_KEYWORDS, e.message) THEN "PERMANENT"
      ELSE IF error_type \in {"valueerror", "typeerror", "keyerror", "filenotfounderror"}
      THEN "PERMANENT"
      ELSE "RECOVERABLE"

\* a retry test that holds back only permanent errors
should_retry_NotPermanent(e) == classify_error(e) # "PERMANENT"

\* ErrorHandler.should_retry
should_retry(e) == classify_error(e) = "RECOVERABLE"

InitErrors ==
  /\ fs = <<>>
  /\ pc = "idle"
  /\ item = NoItem
  /\ resume = FALSE
  /\ gen_model = None
  /\ eval_model = None
  /\ idx = 0
  /\ calls = <<>>
  /\ gen_calls = 0
  /\ item0 = NoItem
  /\ fs0 = fs
  /\ runs = 0
  /\ filename = None
  /\ procs = <<>>
  /\ last_writer = 0
  /\ error \in [type : ErrorTypes, message : SeqsUpTo(Fragments, MaxWords)]
  /\ result = None
  /\ call = None

\* ErrorHandler.classify_error(error) and ErrorHandler.should_retry(error)
HandleError ==
  /\ pc = "idle"
  /\ result' = [category |-> classify_error(error), retry |-> should_retry(error)]
  /\ pc' = "handled"
  /\ UNCHANGED <<fs, item, resume, gen_model, eval_model, idx, calls,
                 gen_calls, item0, fs0, runs, filename, procs, last_writer,
                 error, call>>

NextErrors == HandleError

SpecErrors == InitErrors /\ [][NextErrors]_vars

\* -------------------------------------------------------------------
\* the message holds a fragment that, whatever its letter case, is a system
\* keyword, a recoverable keyword (rate limit, timeout, 503), a permanent one
Says(fragments) == \E n \in 1..Len(error.message) : error.message[n] \in fragments

SaysSystem == Says({"Disk Full"})
SaysRecoverable == Says({"timeout", "Rate Limit", "503"})
SaysPermanent == Says({"invalid"})

InvalidOrNotFound == error.type \in {"ValueError", "KeyError", "FileNotFoundError"}
SystemType == error.type \in {"MemoryError", "OSError", "PermissionError"}
NetworkType == error.type \in {"ConnectionError", "Timeout", "HTTPError"}
PermanentType ==
  error.type \in {"ValueError", "TypeError", "KeyError", "FileNotFoundError"}

\* C21 as stated: a ValueError, KeyError or FileNotFoundError is never
\* retried, whatever its message; an error that speaks of a rate limit, a
\* timeout or a 5xx response is retried
C21_InvalidNeverRetried ==
  pc = "handled" =>
    /\ InvalidOrNotFound => ~result.retry
    /\ (~InvalidOrNotFound /\ (SaysRecoverable \/ Says({"500"}))) => result.retry

\* C21 amended: a ValueError, KeyError or FileNotFoundError is retried
\* exactly when its message holds a recoverable keyword and no system
\* keyword; an error whose message holds a recoverable keyword, or whose
\* type is a network type, is retried exactly when the message holds no
\* system keyword and the type is no system type
C21_RetryFollowsMessage ==
  pc = "handled" =>
    /\ InvalidOrNotFound => (result.retry <=> (SaysRecoverable /\ ~SaysSystem))
    /\ (SaysRecoverable \/ NetworkType) =>
         (result.retry <=> (~SaysSystem /\ ~SystemType))

\* a ValueError whose message speaks of a timeout is retried
C21_Witness ==
  /\ pc = "handled"
  /\ error.type = "ValueError"
  /\ error.message = <<"Question is required", "timeout">>
  /\ result.retry

\* -------------------------------------------------------------------
\* C27: the category is that of the first test that matches, in the order
\* system keyword, system type, recoverable keyword, recoverable type,
\* permanent keyword, permanent type; an error that matches none is
\* RECOVERABLE; should_retry is true exactly for RECOVERABLE
C27_FirstMatch ==
  pc = "handled" =>
    /\ result.category =
         (CASE SaysSystem -> "SYSTEM"
            [] ~SaysSystem /\ SystemType -> "SYSTEM"
            [] ~SaysSystem /\ ~SystemType /\ SaysRecoverable -> "RECOVERABLE"
            [] ~SaysSystem /\ ~SystemType /\ ~SaysRecoverable /\ NetworkType
                 -> "RECOVERABLE"
            [] ~SaysSystem /\ ~SystemType /\ ~SaysRecoverable /\ ~NetworkType
                 /\ SaysPermanent -> "PERMANENT"
            [] ~SaysSystem /\ ~SystemType /\ ~SaysRecoverable /\ ~NetworkType
                 /\ ~SaysPermanent /\ PermanentType -> "PERMANENT"
            [] OTHER -> "RECOVERABLE")
    /\ result.retry <=> result.category = "RECOVERABLE"

\* a permanent type with a recoverable and a permanent keyword: the
\* recoverable keyword is met first
C27_Witness ==
  /\ pc = "handled"
  /\ error.type = "KeyError"
  /\ error.message = <<"invalid", "Rate Limit">>
  /\ result.category = "RECOVERABLE"

C27_WitnessDefault ==
  /\ pc = "handled"
  /\ error.type = "RuntimeError"
  /\ error.message = <<"500">>
  /\ result = [category |-> "RECOVERABLE", retry |-> TRUE]

C22_WitnessComplete ==
  /\ pc = "rechecked"
  /\ result.complete
  /\ Exists(fs, JsonPath)

\* -------------------------------------------------------------------
\* C25: at every point of an evaluation run for (gen_model, eval_model) the
\* item differs from the item the run was given only by judgments appended
\* to its entries, each carrying that pair; so for every other pair the
\* entries with a judgment, and with them the completion status, are the same
InEvalRun ==
  /\ eval_model # None
  /\ pc \in {"eval_run", "eval_loop", "eval_save", "final_save", "failed"}

JudgedFor(it, g, e) ==
  {n \in 1..Len(it.evaluation) :
     \E k \in 1..Len(it.evaluation[n].judgments) :
       Matches(it.evaluation[n].judgments[k], g, e)}

C25_OnlyOwnJudgments ==
  InEvalRun =>
    /\ item.id = item0.id
    /\ item.reference_image_url = item0.reference_image_url
    /\ item.t2i_prompt = item0.t2i_prompt
    /\ item.chart_type = item0.chart_type
    /\ item.generation = item0.generation
    /\ Len(item.evaluation) = Len(item0.evaluation)
    /\ \A n \in 1..Len(item0.evaluation) :
         LET old == item0.evaluation[n]
             new == item.evaluation[n]
         IN  /\ new.source = old.source /\ new.ground = old.ground
             /\ new.question = old.question
             /\ new.question_type = old.question_type
             /\ IsPrefix(old.judgments, new.judgments)
             /\ \A k \in (Len(old.judgments) + 1)..Len(new.judgments) :
                  /\ new.judgments[k].gen_model = gen_model
                  /\ new.judgments[k].eval_model = eval_model
    /\ \A g \in GenModels, e \in EvalModels :
         <<g, e>> # <<gen_model, eval_model>> =>
           /\ JudgedFor(item, g, e) = JudgedFor(item0, g, e)
           /\ check_evaluation_complete(item, g, e)
                = check_evaluation_complete(item0, g, e)

\* a run for (G2, E1) on an item with a recorded generation and a judgment
\* of (G1, E1) has judged both entries
C25_Witness ==
  /\ InEvalRun /\ pc = "final_save"
  /\ gen_model = G2
  /\ item0.generation # EmptyMap
  /\ calls = <<1, 2>>
  /\ item.evaluation[2].judgments =
       <<Judgment(E1, G1, "a", "1"), Judgment(E1, G2, "a", "1")>>

\* ===================================================================
\* ItemStateManager.is_stage_completed, called on a record of the output
\* directory: SpecStage
\* ===================================================================
MaxStageEntries == 2

\* model names that hold the separator of the method argument
GU == <<"g", "_", "u">>
EU == <<"e", "_", "u">>
StageGenModels == {G1, GU}
StageEvalModels == {E1, EU}

\* the method a caller builds for the evaluate stage
Method(e, g) == e \o <<"_">> \o g

\* a JSON object standing where the code of VISItem expects the list of
\* entries: the one-element sequence below, told apart from a list of entry
\* objects by its key
Object(d) == <<[object |-> d]>>

\* isinstance(v, list), for a value that is a list of objects or an Object
IsList(v) == v = <<>> \/ "object" \notin DOMAIN v[1]

\* "not v" for a value that is a list of objects or an Object
EmptyJson(v) == v = <<>> \/ (~IsList(v) /\ DOMAIN v[1].object = {})

\* the stat of the path fails with an error other than "no such file"
\* (the item directory cannot be searched, the name is too long)
NoAccess == [bytes |-> "no access"]

\* what a call does: it returns a value or raises
Returns(v) == [kind |-> "return", value |-> v]
Raises(t) == [kind |-> "raise", type |-> t]

\* bool(s and s.strip()) for a string of pieces
NotBlank(s) == s # None /\ s # <<>> /\ \E n \in 1..Len(s) : s[n] # " "

\* not question or not question.strip()
BlankQuestion(q) == q \in {"", " "}

\* method.split("_", 1) of a method that holds "_"
SplitMethod(method) ==
  LET i == IndexFrom(method, "_", 1)
  IN  <<SubSeq(method, 1, i - 1), SubSeq(method, i + 1, Len(method))>>

\* the loop over the entries of one dimension in
\* _validate_questions_completion
RECURSIVE QuestionsFrom(_, _)
QuestionsFrom(entries, n) ==
  IF n > Len(entries) THEN TRUE
  ELSE IF BlankQuestion(Get(entries[n], "question", "")) THEN FALSE
       ELSE QuestionsFrom(entries, n + 1)

\* ItemStateManager._validate_questions_completion, from dimension n on
RECURSIVE validate_questions_from(_, _, _)
validate_questions_from(evaluation, configured_dimensions, n) ==
  IF n > Len(configured_dimensions) THEN Returns(TRUE)
  ELSE IF IsList(evaluation) THEN Raises("AttributeError")
  ELSE LET entries == Get(evaluation[1].object, configured_dimensions[n], <<>>)
       IN  IF entries = <<>> THEN Returns(FALSE)
           ELSE IF ~QuestionsFrom(entries, 1) THEN Returns(FALSE)
           ELSE validate_questions_from(evaluation, configured_dimensions, n + 1)

validate_questions_completion(data, configured_dimensions) ==
  validate_questions_from(Get(data, "evaluation", Object(EmptyMap)),
                          configured_dimensions, 1)

\* any(j.get("eval_model") == eval_model and j.get("gen_model") == gen_model
\*     for j in judgments)
AnyJudgmentDict(judgments, e_model, g_model) ==
  \E k \in 1..Len(judgments) :
    /\ Get(judgments[k], "eval_model", None) = e_model
    /\ Get(judgments[k], "gen_model", None) = g_model

\* the loop over the entries of one dimension in
\* _validate_evaluation_completion
RECURSIVE JudgedFrom(_, _, _, _)
JudgedFrom(entries, n, e_model, g_model) ==
  IF n > Len(entries) THEN TRUE
  ELSE IF ~AnyJudgmentDict(Get(entries[n], "judgments", <<>>), e_model, g_model)
       THEN FALSE
       ELSE JudgedFrom(entries, n + 1, e_model, g_model)

\* the loop over the configured dimensions, from dimension n on
RECURSIVE validate_evaluation_from(_, _, _, _, _)
validate_evaluation_from(evaluation, configured_dimensions, n, e_model, g_model) ==
  IF n > Len(configured_dimensions) THEN Returns(TRUE)
  ELSE IF IsList(evaluation) THEN Raises("AttributeError")
  ELSE LET entries == Get(evaluation[1].object, configured_dimensions[n], <<>>)
       IN  IF entries = <<>> THEN Returns(FALSE)
           ELSE IF ~JudgedFrom(entries, 1, e_model, g_model) THEN Returns(FALSE)
           ELSE validate_evaluation_from(evaluation, configured_dimensions, n + 1,
                                         e_model, g_model)

\* ItemStateManager._validate_evaluation_completion
validate_evaluation_completion(data, method, configured_dimensions) ==
  IF \A n \in 1..Len(method) : method[n] # "_" THEN Returns(FALSE)
  ELSE LET parts == SplitMethod(method)
           evaluation == Get(data, "evaluation", Object(EmptyMap))
       IN  IF EmptyJson(evaluation) THEN Returns(FALSE)
           ELSE validate_evaluation_from(evaluation, configured_dimensions, 1,
                                         parts[1], parts[2])

\* the body of the try block of is_stage_completed
StageBody(files, output_dir, item_id, stage, method, configured_dimensions) ==
  LET item_json == build_save_path(output_dir, item_id)
      data == files[item_json]
  IN  IF ~Readable(data) THEN Raises("JSONDecodeError")
      ELSE IF stage = "draft"
        THEN Returns(NotBlank(Get(Get(data, "design_space", EmptyMap),
                                  "t2i_prompt", <<>>)))
      ELSE IF stage = "generate"
        THEN Returns(is_stage_completed_generate(files, output_dir, item_id, method))
      ELSE IF stage = "generate_questions"
        THEN IF Falsy(configured_dimensions) THEN Returns(FALSE)
             ELSE validate_questions_completion(data, configured_dimensions)
      ELSE IF stage = "evaluate"
        THEN IF Falsy(method) \/ Falsy(configured_dimensions) THEN Returns(FALSE)
             ELSE validate_evaluation_completion(data, method, configured_dimensions)
      ELSE Returns(FALSE)

\* ItemStateManager.is_stage_completed: the set of the outcomes a call can
\* have.  The test item_json.exists() stands before the try block: where the
\* stat fails with an error Path.exists does not take for absence, the
\* pathlib of the interpreter either lets the OSError through or answers
\* False; every exception of the try block becomes False
is_stage_completed(files, output_dir, item_id, stage, method, configured_dimensions) ==
  LET item_json == build_save_path(output_dir, item_id)
  IN  IF ~Exists(files, item_json) THEN {Returns(FALSE)}
      ELSE IF files[item_json] = NoAccess THEN {Raises("OSError"), Returns(FALSE)}
      ELSE LET body == StageBody(files, output_dir, item_id, stage, method,
                                 configured_dimensions)
           IN  IF body.kind = "raise" THEN {Returns(FALSE)} ELSE {body}

\* ------------------------------------------------- the records of SpecStage
StageJudgments ==
  {Judgment(e, g, "a", "1") : e \in StageEvalModels, g \in StageGenModels}

StageEntries ==
  {SeedEntry("Is there a title?", js) : js \in SeqsUpTo(StageJudgments, 1)}

StageImage == resolve_image_path(ItemId, G1, OutputDir)

\* the items a driver may have saved
StageItems ==
  [id : {ItemId}, reference_image_url : {None}, t2i_prompt : {<<"draw a chart">>},
   chart_type : {None}, generation : {EmptyMap, G1 :> StageImage},
   evaluation : SeqsUpTo(StageEntries, MaxStageEntries)]

\* the records VISItem.save_item writes for them
SavedRecords == {ToDict(it) : it \in StageItems}

\* lists of entry objects under one dimension of an evaluation object
DimensionLists ==
  {<<>>,
   <<EntryToDict(SeedEntry("Is there a title?", <<>>))>>,
   <<EntryToDict(SeedEntry(" ", <<Judgment(E1, G1, "a", "1")>>))>>,
   <<EntryToDict(SeedEntry("Is there a title?", <<Judgment(E1, G1, "a", "1")>>))>>}

\* records of the layout is_stage_completed reads: the prompt under
\* design_space, the evaluation an object keyed by dimension
StageRecords ==
  {[id |-> ItemId, design_space |-> [t2i_prompt |-> p],
    generation |-> EmptyMap, evaluation |-> Object(d)] :
     p \in {<<"draw a chart">>, <<" ">>},
     d \in [{"data"} -> DimensionLists] \cup [{"data", "title"} -> DimensionLists]}

StageContents == SavedRecords \cup StageRecords \cup {Truncated, Torn, NoAccess}

Stages == {"draft", "generate", "generate_questions", "evaluate", "publish"}

Methods ==
  {None, <<>>, G1} \cup {Method(e, g) : e \in StageEvalModels, g \in StageGenModels}

Dimensions == {None, <<>>, <<"data">>, <<"data", "title">>}

StagePath == build_save_path(OutputDir, ItemId)

InitStage ==
  /\ fs \in {<<>>} \cup {(StagePath :> c) : c \in StageContents}
            \cup {(StagePath :> c) @@ (StageImage :> Png) : c \in SavedRecords}
  /\ call \in [stage : Stages, method : Methods, configured_dimensions : Dimensions]
  /\ pc = "idle"
  /\ item = NoItem
  /\ resume = FALSE
  /\ gen_model = None
  /\ eval_model = None
  /\ idx = 0
  /\ calls = <<>>
  /\ gen_calls = <<>>
  /\ item0 = NoItem
  /\ fs0 = <<>>
  /\ runs = 0
  /\ filename = None
  /\ procs = <<>>
  /\ last_writer = 0
  /\ error = None
  /\ result = None

\* a caller asks whether the stage is completed
StageCheck ==
  /\ pc = "idle"
  /\ \E outcome \in is_stage_completed(fs, OutputDir, ItemId, call.stage,
                                      call.method, call.configured_dimensions) :
       result' = outcome
  /\ pc' = "asked"
  /\ UNCHANGED <<fs, item, resume, gen_model, eval_model, idx, calls,
                 gen_calls, item0, fs0, runs, filename, procs, last_writer,
                 error, call>>

NextStage == StageCheck

SpecStage == InitStage /\ [][NextStage]_vars

\* -------------------------------------------------------------------
\* C23: for a record save_item wrote, is_stage_completed(id, "evaluate",
\* evalModel + "_" + genModel, dimensions) with a non-empty list of
\* dimensions returns what check_evaluation_complete(genModel, evalModel)
\* returns on the loaded record
AskedEvaluate(e, g) ==
  /\ pc = "asked"
  /\ call.stage = "evaluate"
  /\ call.method = Method(e, g)
  /\ ~Falsy(call.configured_dimensions)
  /\ Exists(fs, StagePath)
  /\ fs[StagePath] \in SavedRecords

C23_SameAsCheckComplete ==
  \A e \in StageEvalModels, g \in StageGenModels :
    AskedEvaluate(e, g) =>
      result = Returns(check_evaluation_complete(FromDict(fs[StagePath]), g, e))

\* the stage was asked about for a saved record whose every entry the pair
\* (G1, E1) has judged
C23_Witness ==
  /\ AskedEvaluate(E1, G1)
  /\ Len(fs[StagePath].evaluation) = MaxStageEntries
  /\ check_evaluation_complete(FromDict(fs[StagePath]), G1, E1)
  /\ result = Returns(FALSE)

\* -------------------------------------------------------------------
\* C26: is_stage_completed never raises
C26_NeverRaises == pc = "asked" => result.kind = "return"

\* what it does once the existence test has answered: it returns False for
\* an absent file, a file that is no JSON text, an unknown stage, and a
\* missing method or dimensions argument
C26_FalseOnFailure ==
  pc = "asked" /\ result.kind = "return" =>
    /\ ~Exists(fs, StagePath) => ~result.value
    /\ Exists(fs, StagePath) /\ fs[StagePath] \in {Truncated, Torn, NoAccess} => ~result.value
    /\ call.stage \notin {"draft", "generate", "generate_questions", "evaluate"}
         => ~result.value
    /\ call.stage \in {"generate", "evaluate"} /\ Falsy(call.method) => ~result.value
    /\ call.stage \in {"generate_questions", "evaluate"}
         /\ Falsy(call.configured_dimensions) => ~result.value

\* the call was made for a path whose stat fails, and it raised
C26_Witness ==
  /\ pc = "asked" /\ Exists(fs, StagePath) /\ fs[StagePath] = NoAccess
  /\ result = Raises("OSError")

\* the call returned True
StageCompleted(stage) == pc = "asked" /\ call.stage = stage /\ result = Returns(TRUE)

\* ===================================================================
\* Generation runs of one item for several model names: SpecPaths
\* ===================================================================
MaxPathNameLen == 1
PathPieces == {"a", "b", "-", ".", "/"}

\* the model names of --model
PathModels == SeqsUpTo(PathPieces, MaxPathNameLen) \ {<<>>}

PathSeed ==
  [id |-> ItemId, reference_image_url |-> None,
   t2i_prompt |-> <<"draw a chart">>, chart_type |-> None]

\* the image the generation capability returns for a model
Image(model) == [image_of |-> model]

InitPaths ==
  /\ fs = (SeedPath :> PathSeed)
  /\ pc = "idle"
  /\ item = NoItem
  /\ resume = FALSE
  /\ gen_model = None
  /\ eval_model = None
  /\ idx = 0
  /\ calls = <<>>
  /\ gen_calls = 0
  /\ item0 = NoItem
  /\ fs0 = <<>>
  /\ runs = 0
  /\ filename = None
  /\ procs = <<>>
  /\ last_writer = 0
  /\ error = None
  /\ result = None
  /\ call = None

\* cmd_gen for one of the model names: the files as the process found them
\* are kept in fs0
PathCmdGen(r, m) ==
  /\ pc = "idle"
  /\ runs < MaxRuns
  /\ item' = (IF r THEN load_item(fs, OutputDir, SeedPath, TRUE)
                   ELSE FromDict(fs[SeedPath]))
  /\ item0' = item'
  /\ fs0' = fs
  /\ resume' = r
  /\ gen_model' = m
  /\ eval_model' = None
  /\ pc' = "gen_run"
  /\ UNCHANGED <<fs, idx, calls, gen_calls, runs>>
  /\ UNCHANGED <<filename, procs, last_writer, error, result, call>>

\* GenWorkflow.run past the resume test: the image of the model is written
\* at the resolved path, the record updated and saved
PathGenerate ==
  /\ pc = "gen_run"
  /\ ~GenAlreadyDone(fs, item, resume, gen_model)
  /\ gen_calls' = gen_calls + 1
  /\ LET image_path == resolve_image_path(item.id, gen_model, OutputDir)
     IN  /\ item' = update_generation(item, gen_model, image_path)
         /\ fs' = save_item(WriteFile(fs, image_path, Image(gen_model)), OutputDir, item')
  /\ pc' = "final_save"
  /\ UNCHANGED <<resume, gen_model, eval_model, idx, calls, item0, fs0, runs>>
  /\ UNCHANGED <<filename, procs, last_writer, error, result, call>>

NextPaths ==
  \/ \E r \in BOOLEAN, m \in PathModels : PathCmdGen(r, m)
  \/ GenSkip
  \/ PathGenerate
  \/ FinalSave
  \/ Exit

SpecPaths == InitPaths /\ [][NextPaths]_vars

\* -------------------------------------------------------------------
\* the models other than the one of the run for which the record in the
\* output directory, as the process found it, names an image file
Recorded ==
  IF Exists(fs0, JsonPath)
  THEN {m \in DOMAIN fs0[JsonPath].generation :
          m # gen_model /\ Exists(fs0, fs0[JsonPath].generation[m])}
  ELSE {}

RecordedFor(m) == m \in Recorded

Intact(m) ==
  LET path == fs0[JsonPath].generation[m]
  IN  Exists(fs, path) /\ fs[path] = fs0[path]

InGenRun == pc \in {"gen_run", "final_save", "done"}

\* C24 as stated: the model of the run and another model of the record
\* resolve to different paths, and the run leaves the image file the record
\* names for the other model as it was
C24_NeverOverwrites ==
  InGenRun =>
    \A m \in Recorded :
      /\ resolve_image_path(ItemId, m, OutputDir)
           # resolve_image_path(ItemId, gen_model, OutputDir)
      /\ Intact(m)

\* C24: two model names that differ after normalize_for_filename resolve to
\* different paths, and a generation run for one of them leaves the image
\* file the record names for the other as it was
C24_DistinctNormalised ==
  InGenRun =>
    \A m \in Recorded :
      normalize_for_filename(m) # normalize_for_filename(gen_model) =>
        /\ resolve_image_path(ItemId, m, OutputDir)
             # resolve_image_path(ItemId, gen_model, OutputDir)
        /\ Intact(m)

\* a run for "-" has written its image while the record names the image of
\* "a": both are kept
C24_Witness ==
  /\ pc = "final_save"
  /\ gen_model = <<"-">>
  /\ RecordedFor(<<"a">>)
  /\ Intact(<<"a">>)
  /\ fs[resolve_image_path(ItemId, gen_model, OutputDir)] = Image(gen_model)
  /\ gen_calls = 1
  /\ runs = 1

\* a run for "." has written its image over the one the record names for "-"
C24_WitnessCollision ==
  /\ pc = "final_save"
  /\ gen_model = <<".">>
  /\ RecordedFor(<<"-">>)
  /\ ~Intact(<<"-">>)

====
